---- MODULE Spec2Model ----
(***************************************************************************)
(* Model of the wait/interaction layer (framework/core/base_page.py) of    *)
(* the E2E framework, together with the part of the browser it talks to.   *)
(*                                                                         *)
(* Time is counted in ticks of one WebDriverWait polling interval (0.5 s). *)
(* `elapsed` is the stopwatch of the wait in progress: it starts at 0 when *)
(* WebDriverWait.until is entered and is read when the wait ends.          *)
(* The page (one DOM node per locator) changes concurrently with the       *)
(* test: nodes are removed, re-created, hidden, disabled, covered by an    *)
(* overlay, and the browser session may die.                               *)
(*                                                                         *)
(* The same module holds the frame, window and alert operations of the     *)
(* page object (SpecContext), the configuration manager                    *)
(* (framework/config/config_manager.py, SpecConfig) and the driver factory *)
(* with the driver fixture (framework/core/driver_factory.py,              *)
(* tests/conftest.py, SpecFactory). Each specification moves its own       *)
(* variables and leaves the others as they start.                          *)
(*                                                                         *)
(* SpecSettings adds the readers of the configuration (get_section,        *)
(* get_all, the properties), the code that assigns into what they hand     *)
(* out, and the construction of a page object. SpecFactory includes the    *)
(* report hook of tests/conftest.py and the screenshots it takes.          *)
(*                                                                         *)
(* SpecFlows runs the methods that are made of several calls of the        *)
(* interaction layer (LoginPage.login, LoginPage.get_error_message,        *)
(* BasePage.drag_and_drop) on a page with one node per locator of the      *)
(* login page; `flow` holds the method in progress and the calls it made.  *)
(***************************************************************************)
EXTENDS Integers, Sequences, FiniteSets, TLC

VARIABLES
    dom,          \* the page: locator -> DOM node state
    session,      \* "alive" | "dead": the browser session behind the driver
    implicitWait, \* the session's implicit wait, in ticks
    pageTimeout,  \* BasePage.timeout (self.timeout), in seconds
    pc,           \* position of the test thread inside the current call
    call,         \* the current call: operation and arguments
    elapsed,      \* ticks since the current WebDriverWait.until began
    endTime,      \* end_time of the current WebDriverWait.until, in ticks
    findStart,    \* tick at which the current find_element(s) was issued
    handle,       \* the WebElement handle held by the current call
    field0,       \* content of the field when the handle was fetched
    issued,       \* element interactions issued by the current call
    log,          \* log lines written by the current call
    result,       \* how the current call ended
    condSince,    \* tick since which the wait's condition holds (0 while it does not)
    condEver,     \* the wait's condition held at some instant of the wait
    alert,        \* the browser alert that is open: its text, or "none"
    windows,      \* the handles of the open windows
    context,      \* the browsing context the driver is switched to
    alertFound,   \* until(alert_is_present()) answered in the current call
    environ,      \* os.environ: variable name -> value, for the variables set
    dotenv,       \* the .env file
    configFile,   \* the YAML file <TEST_ENV>_config.yml
    instance,     \* ConfigManager._instance
    initialized,  \* ConfigManager._instance._initialized
    config,       \* ConfigManager._config
    cfgCall,      \* the last call on ConfigManager and how it ended
    sets,         \* number of calls of set so far
    written,      \* the keys that set has written
    lastSet,      \* the key and value of the last set that returned
    factory,      \* the DriverFactory of the current test
    sessions,     \* the browser sessions created so far
    test,         \* the test in progress and its position
    facCall,      \* the last call on DriverFactory and how it ended
    artifacts,    \* the directory screenshots/ and the files in it
    flow          \* the page-object method that is composed of other calls

pageVars == <<dom, session, implicitWait, pageTimeout, pc, call, elapsed, endTime,
              findStart, handle, field0, issued, log, result, condSince, condEver>>

\* The browser outside the document: alert, windows, current context.
browserVars == <<alert, windows, context>>

\* framework/config/config_manager.py
cfgVars == <<environ, dotenv, configFile, instance, initialized, config, cfgCall,
             sets, written, lastSet>>

\* framework/core/driver_factory.py and the driver fixture of tests/conftest.py
facVars == <<factory, sessions, test, facCall, artifacts>>

\* A method that calls other methods of the page object: its arguments and
\* the calls it has made so far.
flowVars == <<flow>>

\* What no single call of the interaction layer touches.
outsideVars == <<cfgVars, facVars, flowVars>>

\* What the element interactions and the waits never touch.
otherVars == <<browserVars, alertFound, outsideVars>>

vars == <<pageVars, otherVars>>

(***************************************************************************)
(* Bounds                                                                  *)
(***************************************************************************)
MaxTimeout == 2

MaxFieldLen == 2

MaxGen == 1

ShortTimeout == 1

MaxSets == 2

MaxTests == 1

(***************************************************************************)
(* Program constants                                                       *)
(***************************************************************************)
\* WebDriverWait polls every 0.5 s: one tick is one polling interval.
TicksPerSecond == 2

PollTicks == 1

\* driver.implicitly_wait(10)
ImplicitWaitSeconds == 10

\* timeout: Optional[int] = None
NoTimeout == -1

Locators == {"login-button"}

Alphabet == {"a", "b"}

AttrNames == {"style"}

NoneValue == "None"

AttrValues == {"color:red"}

BoundedSeq(S, n) == UNION {[1..k -> S] : k \in 0..n}

Texts == BoundedSeq(Alphabet, 1)

FieldValues == BoundedSeq(Alphabet, MaxFieldLen)

NoHandle == [loc |-> "none", gen |-> -1]

NoResult == [kind |-> "none"]

NoCall == [op |-> "none"]

(***************************************************************************)
(* The page and the browser                                                *)
(***************************************************************************)
AttrMaps == [AttrNames -> AttrValues \cup {NoneValue}]

\* A locator that matches no node: the node fields keep their neutral values.
AbsentNode(g, a) ==
    [present |-> FALSE, visible |-> FALSE, enabled |-> FALSE, obscured |-> FALSE,
     gen |-> g, value |-> <<>>, attrs |-> a]

PresentNodes(g) ==
    [present : {TRUE}, visible : BOOLEAN, enabled : BOOLEAN, obscured : BOOLEAN,
     gen : {g}, value : FieldValues, attrs : AttrMaps]

\* A handle is stale once its node left the DOM, even if the locator matches
\* a new node by now.
Fresh(h) == h # NoHandle /\ dom[h.loc].present /\ dom[h.loc].gen = h.gen

Exc(t) == [type |-> t, msg |-> {}]

WaitOps ==
    {"wait_for_element", "wait_for_elements", "wait_for_element_clickable",
     "wait_for_element_invisible", "is_element_visible"}

BooleanWaits == {"wait_for_element_invisible", "is_element_visible"}

\* The operations by the expected condition they wait for.
VisibilityOps ==
    {"wait_for_element", "is_element_visible", "enter_text", "get_attribute",
     "switch_to_frame", "get_text", "scroll_to_element", "highlight_element"}

ClickableOps == {"wait_for_element_clickable", "click"}

\* The waits that return the element itself.
ElementWaits == {"wait_for_element", "wait_for_element_clickable"}

WaitPositions == {"poll", "sleep"}

InWait == pc \in WaitPositions

\* condSince and condEver observe the waits a test calls directly.
Observed == InWait /\ call.op \in WaitOps

\* The expected condition each operation hands to WebDriverWait.until.
CondOf(op) ==
    CASE op \in VisibilityOps -> "visibility_of_element_located"
      [] op = "wait_for_elements" -> "presence_of_all_elements_located"
      [] op \in ClickableOps -> "element_to_be_clickable"
      [] op = "wait_for_element_invisible" -> "invisibility_of_element_located"

\* The value of the expected condition on a node, once the lookup has answered.
\* A lookup that finds nothing raises NoSuchElementException, which `until`
\* ignores (with visibility/clickable) or which the condition turns into True
\* (invisibility); find_elements answers the empty list, which is falsy.
CondHolds(cond, n) ==
    CASE cond = "visibility_of_element_located" -> n.present /\ n.visible
      [] cond = "presence_of_all_elements_located" -> n.present
      [] cond = "element_to_be_clickable" -> n.present /\ n.visible /\ n.enabled
      [] cond = "invisibility_of_element_located" -> ~n.present \/ ~n.visible

\* condSince / condEver after the page became d while a wait is in progress.
SinceAfter(d) ==
    IF ~Observed THEN condSince
    ELSE IF CondHolds(CondOf(call.op), d[call.loc])
         THEN (IF CondHolds(CondOf(call.op), dom[call.loc]) THEN condSince
               ELSE elapsed)
         ELSE 0

EverAfter(d) ==
    IF ~Observed THEN condEver
    ELSE condEver \/ CondHolds(CondOf(call.op), d[call.loc])

PageBecomes(d) ==
    /\ pc # "done"
    /\ dom' = d
    /\ condSince' = SinceAfter(d)
    /\ condEver' = EverAfter(d)
    /\ UNCHANGED <<otherVars, session, implicitWait, pageTimeout, pc, call, elapsed, endTime,
                   findStart, handle, field0, issued, log, result>>

NodeRemoved ==
    \E l \in DOMAIN dom :
        /\ dom[l].present
        /\ PageBecomes([dom EXCEPT ![l] = AbsentNode(dom[l].gen, dom[l].attrs)])

NodeInserted ==
    \E l \in DOMAIN dom, v \in BOOLEAN, e \in BOOLEAN :
        /\ ~dom[l].present
        /\ dom[l].gen < MaxGen
        /\ PageBecomes([dom EXCEPT ![l] =
               [present |-> TRUE, visible |-> v, enabled |-> e, obscured |-> FALSE,
                gen |-> dom[l].gen + 1, value |-> <<>>, attrs |-> dom[l].attrs]])

VisibilityChanged ==
    \E l \in DOMAIN dom :
        /\ dom[l].present
        /\ PageBecomes([dom EXCEPT ![l].visible = ~dom[l].visible])

EnabledChanged ==
    \E l \in DOMAIN dom :
        /\ dom[l].present
        /\ PageBecomes([dom EXCEPT ![l].enabled = ~dom[l].enabled])

OverlayChanged ==
    \E l \in DOMAIN dom :
        /\ dom[l].present
        /\ PageBecomes([dom EXCEPT ![l].obscured = ~dom[l].obscured])

SessionDies ==
    /\ pc # "done"
    /\ session = "alive"
    /\ session' = "dead"
    /\ UNCHANGED <<otherVars, dom, implicitWait, pageTimeout, pc, call, elapsed, endTime,
                   findStart, handle, field0, issued, log, result, condSince,
                   condEver>>

(***************************************************************************)
(* Values and results                                                      *)
(***************************************************************************)
PyNone == [t |-> "None"]

PyBool(b) == [t |-> "bool", b |-> b]

PyElement(h) == [t |-> "WebElement", h |-> h]

PyList(h) == [t |-> "list", h |-> h]

PyStr(x) == [t |-> "str", s |-> x]

Returned(v) == [kind |-> "return", value |-> v]

Raised(e) == [kind |-> "raise", exc |-> e]

Timeouts == {NoTimeout} \cup (0..MaxTimeout)

\* The per-call timeouts the element interactions are exercised with.
ActionTimeouts == {NoTimeout, ShortTimeout}

\* `timeout or self.timeout`: Python's `or` yields its right operand whenever
\* the left one is falsy, and both None and 0 are falsy.
EffectiveTimeout(t, d) == IF t = NoTimeout \/ t = 0 THEN d ELSE t

Args(op, l, t, x, c, a) ==
    [op |-> op, loc |-> l, timeout |-> t, text |-> x, clear_first |-> c,
     attribute |-> a]

\* Entering WebDriverWait(self.driver, timeout).until(condition):
\* end_time = time.monotonic() + timeout, then the first evaluation.
EnterCall(op, l, t, x, c, a) ==
    /\ pc = "idle"
    /\ call' = Args(op, l, t, x, c, a)
    /\ pc' = "poll"
    /\ elapsed' = 0
    /\ findStart' = 0
    /\ endTime' = EffectiveTimeout(t, pageTimeout) * TicksPerSecond
    /\ handle' = NoHandle
    /\ field0' = <<>>
    /\ issued' = <<>>
    /\ log' = <<>>
    /\ result' = NoResult
    /\ condSince' = 0
    /\ condEver' = (op \in WaitOps /\ CondHolds(CondOf(op), dom[l]))
    /\ alertFound' = FALSE
    /\ UNCHANGED <<browserVars, cfgVars, facVars, dom, session, implicitWait,
                   pageTimeout>>

NoFlow == [op |-> "none"]

\* A call that a test makes directly on the page object.
BeginCall(op, l, t, x, c, a) ==
    /\ flow = NoFlow
    /\ EnterCall(op, l, t, x, c, a)
    /\ UNCHANGED flowVars

wait_for_element ==
    \E l \in Locators, t \in Timeouts :
        BeginCall("wait_for_element", l, t, <<>>, FALSE, "none")

wait_for_elements ==
    \E l \in Locators, t \in Timeouts :
        BeginCall("wait_for_elements", l, t, <<>>, FALSE, "none")

wait_for_element_clickable ==
    \E l \in Locators, t \in Timeouts :
        BeginCall("wait_for_element_clickable", l, t, <<>>, FALSE, "none")

wait_for_element_invisible ==
    \E l \in Locators, t \in Timeouts :
        BeginCall("wait_for_element_invisible", l, t, <<>>, FALSE, "none")

is_element_visible ==
    \E l \in Locators, t \in Timeouts :
        BeginCall("is_element_visible", l, t, <<>>, FALSE, "none")

click ==
    \E l \in Locators, t \in ActionTimeouts :
        BeginCall("click", l, t, <<>>, FALSE, "none")

enter_text ==
    \E l \in Locators, t \in ActionTimeouts, x \in Texts, c \in BOOLEAN :
        /\ Len(dom[l].value) + Len(x) <= MaxFieldLen
        /\ BeginCall("enter_text", l, t, x, c, "none")

get_attribute ==
    \E l \in Locators, t \in ActionTimeouts, a \in AttrNames :
        BeginCall("get_attribute", l, t, <<>>, FALSE, a)

get_text ==
    \E l \in Locators, t \in ActionTimeouts :
        BeginCall("get_text", l, t, <<>>, FALSE, "none")

scroll_to_element ==
    \E l \in Locators, t \in ActionTimeouts :
        BeginCall("scroll_to_element", l, t, <<>>, FALSE, "none")

highlight_element ==
    \E l \in Locators, t \in ActionTimeouts :
        BeginCall("highlight_element", l, t, <<>>, FALSE, "style")

(***************************************************************************)
(* WebDriverWait.until                                                     *)
(***************************************************************************)
\* The call ends here: the stopwatch stops and keeps its reading.
Finish(r) ==
    /\ pc' = "done"
    /\ result' = r

LogLine(level, text) ==
    [level |-> level, text |-> text, loc |-> call.loc,
     timeout |-> EffectiveTimeout(call.timeout, pageTimeout)]

\* The wait is over and the operation goes on with element h.
GoOn(next, h) ==
    /\ pc' = next
    /\ handle' = h
    /\ field0' = dom[h.loc].value
    /\ elapsed' = 0
    /\ endTime' = 0
    /\ findStart' = 0
    /\ condSince' = 0
    /\ condEver' = FALSE
    /\ UNCHANGED <<otherVars, dom, session, implicitWait, pageTimeout, call, issued, log,
                   result>>

\* until() returned a truthy value.
WaitSucceeded ==
    LET h == [loc |-> call.loc, gen |-> dom[call.loc].gen]
        stop(v) ==
            /\ Finish(Returned(v))
            /\ UNCHANGED <<otherVars, dom, session, implicitWait, pageTimeout, call, elapsed,
                           endTime, findStart, handle, field0, issued, log,
                           condSince, condEver>>
    IN  CASE call.op \in ElementWaits ->
                stop(PyElement(h))
          [] call.op = "wait_for_elements" -> stop(PyList(h))
          [] call.op = "wait_for_element_invisible" ->
                stop(IF dom[call.loc].present THEN PyElement(h) ELSE PyBool(TRUE))
          [] call.op = "is_element_visible" -> stop(PyBool(TRUE))
          [] call.op = "click" -> GoOn("click_native", h)
          [] call.op = "enter_text" -> GoOn("clear", h)
          [] call.op = "get_attribute" -> GoOn("read_attr", h)
          [] call.op = "switch_to_frame" -> GoOn("switch_frame", h)
          [] call.op = "get_text" -> GoOn("read_text", h)
          [] call.op = "scroll_to_element" -> GoOn("scroll", h)
          [] call.op = "highlight_element" -> GoOn("highlight_read", h)

\* A handler that logs the timeout and forgets to raise it again.
WaitTimedOutSwallowed ==
    /\ log' = Append(log, LogLine("ERROR", "Element not found within"))
    /\ Finish(Returned(PyNone))

\* until() raised TimeoutException(message = ""): the operation's handler.
WaitTimedOut ==
    LET text == CASE call.op \in VisibilityOps -> "Element not found within"
                  [] call.op = "wait_for_elements" -> "Elements not found within"
                  [] call.op \in ClickableOps -> "Element not clickable within"
                  [] call.op = "wait_for_element_invisible"
                        -> "Element still visible after"
                  [] OTHER -> "none"
    IN  /\ log' = IF call.op = "is_element_visible" THEN log
                  ELSE Append(log, LogLine("ERROR", text))
        /\ IF call.op \in BooleanWaits
           THEN Finish(Returned(PyBool(FALSE)))
           ELSE Finish(Raised(Exc("TimeoutException")))

\* An exception other than TimeoutException leaves until(): no handler of the
\* interaction layer catches it.
WaitRaised(e) ==
    /\ Finish(Raised(e))
    /\ UNCHANGED log

\* find_element(s) with an implicit wait: the browser keeps looking.
FindBlocked ==
    /\ pc = "poll"
    /\ session = "alive"
    /\ ~dom[call.loc].present
    /\ elapsed < findStart + implicitWait
    /\ elapsed' = elapsed + 1
    /\ UNCHANGED <<otherVars, dom, session, implicitWait, pageTimeout, pc, call, endTime,
                   findStart, handle, field0, issued, log, result, condSince,
                   condEver>>

\* value = method(self._driver)
UntilEvaluate ==
    /\ pc = "poll"
    /\ \/ /\ session = "dead"
          /\ WaitRaised(Exc("WebDriverException"))
          /\ UNCHANGED <<otherVars, dom, session, implicitWait, pageTimeout, call, elapsed,
                         endTime, findStart, handle, field0, issued, condSince,
                         condEver>>
       \/ /\ session = "alive"
          /\ dom[call.loc].present \/ elapsed >= findStart + implicitWait
          /\ IF CondHolds(CondOf(call.op), dom[call.loc])
             THEN WaitSucceeded
             ELSE /\ pc' = "sleep"
                  /\ UNCHANGED <<otherVars, dom, session, implicitWait, pageTimeout, call,
                                 elapsed, endTime, findStart, handle, field0,
                                 issued, log, result, condSince, condEver>>

\* time.sleep(self._poll); if time.monotonic() > end_time: break
UntilSleep ==
    /\ pc = "sleep"
    /\ elapsed' = elapsed + PollTicks
    /\ IF elapsed' > endTime
       THEN /\ WaitTimedOut
            /\ UNCHANGED findStart
       ELSE /\ pc' = "poll"
            /\ findStart' = elapsed'
            /\ UNCHANGED <<otherVars, log, result>>
    /\ UNCHANGED <<otherVars, dom, session, implicitWait, pageTimeout, call, endTime, handle,
                   field0, issued, condSince, condEver>>

(***************************************************************************)
(* Element interactions                                                    *)
(***************************************************************************)
\* What the browser answers to element.click().
NativeClickOutcome(h) ==
    IF session = "dead" THEN "WebDriverException"
    ELSE IF ~Fresh(h) THEN "StaleElementReferenceException"
    ELSE IF ~dom[h.loc].visible THEN "ElementNotInteractableException"
    ELSE IF dom[h.loc].obscured THEN "ElementClickInterceptedException"
    ELSE "ok"

\* What it answers to execute_script("arguments[0].click();", element): the
\* script reaches the node whether or not it is covered or hidden.
ScriptClickOutcome(h) ==
    IF session = "dead" THEN "WebDriverException"
    ELSE IF ~Fresh(h) THEN "StaleElementReferenceException"
    ELSE "ok"

\* element.clear()
ClearOutcome(h) ==
    IF session = "dead" THEN "WebDriverException"
    ELSE IF ~Fresh(h) THEN "StaleElementReferenceException"
    ELSE IF ~dom[h.loc].visible THEN "ElementNotInteractableException"
    ELSE IF ~dom[h.loc].enabled THEN "InvalidElementStateException"
    ELSE "ok"

\* element.send_keys(text)
SendKeysOutcome(h) ==
    IF session = "dead" THEN "WebDriverException"
    ELSE IF ~Fresh(h) THEN "StaleElementReferenceException"
    ELSE IF ~dom[h.loc].visible \/ ~dom[h.loc].enabled
         THEN "ElementNotInteractableException"
    ELSE "ok"

\* A lookup that treats a missing attribute as an error.
GetAttributeOutcomeStrict(h) ==
    IF session = "dead" THEN "WebDriverException"
    ELSE IF ~Fresh(h) THEN "StaleElementReferenceException"
    ELSE IF \E a \in AttrNames : dom[h.loc].attrs[a] = NoneValue
         THEN "NoSuchAttributeException"
    ELSE "ok"

\* element.get_attribute(name): an attribute the node does not have reads None.
GetAttributeOutcome(h) ==
    IF session = "dead" THEN "WebDriverException"
    ELSE IF ~Fresh(h) THEN "StaleElementReferenceException"
    ELSE "ok"

AttributeValue(h, a) ==
    IF dom[h.loc].attrs[a] = NoneValue THEN PyNone ELSE PyStr(dom[h.loc].attrs[a])

Interaction(cmd, o) == [cmd |-> cmd, handle |-> handle, outcome |-> o]

\* click without the fallback: the native click's exception leaves the call.
ClickNativeNoFallback ==
    /\ pc = "click_native"
    /\ LET o == NativeClickOutcome(handle) IN
        /\ issued' = Append(issued, Interaction("click", o))
        /\ IF o = "ok"
           THEN Finish(Returned(PyNone))
           ELSE Finish(Raised(Exc(o)))
    /\ UNCHANGED <<otherVars, dom, session, implicitWait, pageTimeout, call, elapsed, endTime,
                   findStart, handle, field0, log, condSince, condEver>>

\* try: element.click()  except Exception: log the warning, go to the fallback
ClickNative ==
    /\ pc = "click_native"
    /\ LET o == NativeClickOutcome(handle) IN
        /\ issued' = Append(issued, Interaction("click", o))
        /\ IF o = "ok"
           THEN /\ Finish(Returned(PyNone))
                /\ UNCHANGED log
           ELSE /\ pc' = "click_script"
                /\ log' = Append(log, LogLine("WARNING",
                                "Regular click failed, trying JavaScript click"))
                /\ UNCHANGED result
    /\ UNCHANGED <<otherVars, dom, session, implicitWait, pageTimeout, call, elapsed, endTime,
                   findStart, handle, field0, condSince, condEver>>

\* The fallback wrapped in a handler that swallows its failure.
ClickScriptSwallowed ==
    /\ pc = "click_script"
    /\ LET o == ScriptClickOutcome(handle) IN
        /\ issued' = Append(issued, Interaction("script_click", o))
        /\ Finish(Returned(PyNone))
    /\ UNCHANGED <<otherVars, dom, session, implicitWait, pageTimeout, call, elapsed, endTime,
                   findStart, handle, field0, log, condSince, condEver>>

\* self.driver.execute_script("arguments[0].click();", element), outside any try
ClickScript ==
    /\ pc = "click_script"
    /\ LET o == ScriptClickOutcome(handle) IN
        /\ issued' = Append(issued, Interaction("script_click", o))
        /\ IF o = "ok"
           THEN Finish(Returned(PyNone))
           ELSE Finish(Raised(Exc(o)))
    /\ UNCHANGED <<otherVars, dom, session, implicitWait, pageTimeout, call, elapsed, endTime,
                   findStart, handle, field0, log, condSince, condEver>>

\* element.clear()
ClearElement ==
    /\ LET o == ClearOutcome(handle) IN
        /\ issued' = Append(issued, Interaction("clear", o))
        /\ IF o = "ok"
           THEN /\ dom' = [dom EXCEPT ![handle.loc].value = <<>>]
                /\ pc' = "send_keys"
                /\ UNCHANGED result
           ELSE /\ Finish(Raised(Exc(o)))
                /\ UNCHANGED dom

SkipClear ==
    /\ pc' = "send_keys"
    /\ UNCHANGED <<otherVars, dom, issued, result>>

\* A slip in the test of clear_first: the field is cleared when it must not be.
ClearFieldInverted ==
    /\ pc = "clear"
    /\ IF ~call.clear_first THEN ClearElement ELSE SkipClear
    /\ UNCHANGED <<otherVars, session, implicitWait, pageTimeout, call, elapsed, endTime,
                   findStart, handle, field0, log, condSince, condEver>>

\* if clear_first: element.clear()
ClearField ==
    /\ pc = "clear"
    /\ IF call.clear_first THEN ClearElement ELSE SkipClear
    /\ UNCHANGED <<otherVars, session, implicitWait, pageTimeout, call, elapsed, endTime,
                   findStart, handle, field0, log, condSince, condEver>>

\* A write that tries once more after its first failure.
SendKeysRetried ==
    /\ pc = "send_keys"
    /\ LET o == SendKeysOutcome(handle) IN
        /\ issued' = Append(issued, Interaction("send_keys", o))
        /\ IF o = "ok"
           THEN /\ dom' = [dom EXCEPT ![handle.loc].value = @ \o call.text]
                /\ Finish(Returned(PyNone))
           ELSE IF \A i \in 1..Len(issued) : issued[i].cmd # "send_keys"
           THEN UNCHANGED <<dom, pc, result>>
           ELSE /\ Finish(Raised(Exc(o)))
                /\ UNCHANGED dom
    /\ UNCHANGED <<otherVars, session, implicitWait, pageTimeout, call, elapsed, endTime,
                   findStart, handle, field0, log, condSince, condEver>>

\* element.send_keys(text)
SendKeys ==
    /\ pc = "send_keys"
    /\ LET o == SendKeysOutcome(handle) IN
        /\ issued' = Append(issued, Interaction("send_keys", o))
        /\ IF o = "ok"
           THEN /\ dom' = [dom EXCEPT ![handle.loc].value = @ \o call.text]
                /\ Finish(Returned(PyNone))
           ELSE /\ Finish(Raised(Exc(o)))
                /\ UNCHANGED dom
    /\ UNCHANGED <<otherVars, session, implicitWait, pageTimeout, call, elapsed, endTime,
                   findStart, handle, field0, log, condSince, condEver>>

\* value = element.get_attribute(attribute); return value
ReadAttribute ==
    /\ pc = "read_attr"
    /\ LET o == GetAttributeOutcome(handle) IN
        /\ issued' = Append(issued, Interaction("get_attribute", o))
        /\ IF o = "ok"
           THEN Finish(Returned(AttributeValue(handle, call.attribute)))
           ELSE Finish(Raised(Exc(o)))
    /\ UNCHANGED <<otherVars, dom, session, implicitWait, pageTimeout, call, elapsed, endTime,
                   findStart, handle, field0, log, condSince, condEver>>

\* The text the page shows in the node of a locator.
PageText(l) == "text of " \o l

\* element.text: the rendered text, which is empty for a node that is hidden.
ElementText(h) == IF dom[h.loc].visible THEN PyStr(PageText(h.loc)) ELSE PyStr("")

\* text = element.text; return text
ReadText ==
    /\ pc = "read_text"
    /\ LET o == GetAttributeOutcome(handle) IN
        /\ issued' = Append(issued, Interaction("text", o))
        /\ IF o = "ok"
           THEN Finish(Returned(ElementText(handle)))
           ELSE Finish(Raised(Exc(o)))
    /\ UNCHANGED <<otherVars, dom, session, implicitWait, pageTimeout, call, elapsed, endTime,
                   findStart, handle, field0, log, condSince, condEver>>

\* time.sleep(...) inside a call: the thread pauses with the handle in hand.
Pause == [cmd |-> "time.sleep", handle |-> NoHandle, outcome |-> "ok"]

\* self.driver.execute_script("arguments[0].scrollIntoView(true);", element)
ScrollIntoView ==
    /\ pc = "scroll"
    /\ LET o == ScriptClickOutcome(handle) IN
        /\ issued' = Append(issued, Interaction("scrollIntoView", o))
        /\ IF o = "ok"
           THEN pc' = "scroll_sleep" /\ UNCHANGED result
           ELSE Finish(Raised(Exc(o)))
    /\ UNCHANGED <<otherVars, dom, session, implicitWait, pageTimeout, call, elapsed, endTime,
                   findStart, handle, field0, log, condSince, condEver>>

\* time.sleep(0.3)  # Allow scroll animation
ScrollSleep ==
    /\ pc = "scroll_sleep"
    /\ issued' = Append(issued, Pause)
    /\ Finish(Returned(PyNone))
    /\ UNCHANGED <<otherVars, dom, session, implicitWait, pageTimeout, call, elapsed, endTime,
                   findStart, handle, field0, log, condSince, condEver>>

\* 'border: 2px solid red; background: yellow;'
HighlightStyle == "border: 2px solid red; background: yellow;"

\* f"...'{original_style}'...": the text Python formats the value to; None
\* is formatted to the four letters, which is not the missing attribute.
FormatValue(v) == IF v = PyNone THEN "'None'" ELSE v.s

\* The frame of highlight_element with its local original_style.
WithOriginalStyle(c, v) ==
    [op |-> c.op, loc |-> c.loc, timeout |-> c.timeout, text |-> c.text,
     clear_first |-> c.clear_first, attribute |-> c.attribute,
     original_style |-> v]

\* original_style = element.get_attribute("style")
HighlightRead ==
    /\ pc = "highlight_read"
    /\ LET o == GetAttributeOutcome(handle) IN
        /\ issued' = Append(issued, Interaction("get_attribute", o))
        /\ IF o = "ok"
           THEN /\ call' = WithOriginalStyle(call, AttributeValue(handle, "style"))
                /\ pc' = "highlight_set"
                /\ UNCHANGED result
           ELSE /\ Finish(Raised(Exc(o)))
                /\ UNCHANGED call
    /\ UNCHANGED <<otherVars, dom, session, implicitWait, pageTimeout, elapsed, endTime,
                   findStart, handle, field0, log, condSince, condEver>>

\* execute_script("arguments[0].setAttribute('style', ...)", element)
SetStyle(next, style) ==
    LET o == ScriptClickOutcome(handle) IN
        /\ issued' = Append(issued, Interaction("setAttribute", o))
        /\ IF o = "ok"
           THEN /\ dom' = [dom EXCEPT ![handle.loc].attrs["style"] = style]
                /\ IF next = "done"
                   THEN Finish(Returned(PyNone))
                   ELSE pc' = next /\ UNCHANGED result
           ELSE /\ Finish(Raised(Exc(o)))
                /\ UNCHANGED dom
        /\ UNCHANGED <<otherVars, session, implicitWait, pageTimeout, call, elapsed,
                       endTime, findStart, handle, field0, log, condSince,
                       condEver>>

\* # Apply highlight
HighlightSet ==
    /\ pc = "highlight_set"
    /\ SetStyle("highlight_sleep", HighlightStyle)

\* time.sleep(0.5)
HighlightSleep ==
    /\ pc = "highlight_sleep"
    /\ issued' = Append(issued, Pause)
    /\ pc' = "highlight_restore"
    /\ UNCHANGED <<otherVars, dom, session, implicitWait, pageTimeout, call, elapsed, endTime,
                   findStart, handle, field0, log, result, condSince, condEver>>

\* # Restore original style
HighlightRestore ==
    /\ pc = "highlight_restore"
    /\ SetStyle("done", FormatValue(call.original_style))

\* The call's frame is left: the thread is back in the caller.
LeaveCall ==
    /\ pc = "done"
    /\ pc' = "idle"
    /\ call' = NoCall
    /\ elapsed' = 0
    /\ endTime' = 0
    /\ findStart' = 0
    /\ handle' = NoHandle
    /\ field0' = <<>>
    /\ issued' = <<>>
    /\ log' = <<>>
    /\ result' = NoResult
    /\ condSince' = 0
    /\ condEver' = FALSE
    /\ alertFound' = FALSE
    /\ UNCHANGED <<browserVars, cfgVars, facVars, dom, session, implicitWait,
                   pageTimeout>>

\* The test has the result; the test thread is free for the next call.
Return ==
    /\ flow = NoFlow
    /\ LeaveCall
    /\ UNCHANGED flowVars

(***************************************************************************)
(* Methods made of calls of the interaction layer                          *)
(***************************************************************************)
\* framework/pages/login_page.py
USERNAME_INPUT == "user-name"

PASSWORD_INPUT == "password"

LOGIN_BUTTON == "login-button"

ERROR_MESSAGE == "h3[data-test='error']"

LoginLocators == {USERNAME_INPUT, PASSWORD_INPUT, LOGIN_BUTTON, ERROR_MESSAGE}

\* is_element_visible(self.ERROR_MESSAGE, timeout=3)
ErrorTimeout == 3

Usernames == {<<"a">>}

Passwords == {<<"b">>}

\* The method is entered: nothing is called yet.
BeginFlow(op, u, p, s, t) ==
    /\ flow = NoFlow
    /\ pc = "idle"
    /\ flow' = [op |-> op, username |-> u, password |-> p, source |-> s,
                target |-> t, calls |-> <<>>, result |-> NoResult]
    /\ UNCHANGED <<pageVars, browserVars, alertFound, cfgVars, facVars>>

Running(op) == flow.op = op /\ flow.result = NoResult /\ pc = "idle"

LastCall == flow.calls[Len(flow.calls)]

\* The last call raised and the method has no handler around it.
Propagating == flow.calls # <<>> /\ LastCall.result.kind = "raise"

\* A method that goes on with its next call whatever the last one did.
FlowCallRegardless(op, k, callee, l, t, x) ==
    /\ Running(op)
    /\ Len(flow.calls) = k - 1
    /\ EnterCall(callee, l, t, x, TRUE, "none")
    /\ UNCHANGED flowVars

\* The k-th call the method makes, once the calls before it have returned.
FlowCall(op, k, callee, l, t, x) ==
    /\ Running(op)
    /\ Len(flow.calls) = k - 1
    /\ ~Propagating
    /\ EnterCall(callee, l, t, x, TRUE, "none")
    /\ UNCHANGED flowVars

\* The call is over and its result is in the hands of the method.
FlowReturn ==
    /\ flow # NoFlow
    /\ LeaveCall
    /\ flow' = [flow EXCEPT !.calls =
                    Append(@, [op |-> call.op, loc |-> call.loc,
                               timeout |-> call.timeout, text |-> call.text,
                               clear_first |-> call.clear_first,
                               result |-> result])]

FlowEnds(r) ==
    /\ flow' = [flow EXCEPT !.result = r]
    /\ UNCHANGED <<pageVars, browserVars, alertFound, cfgVars, facVars>>

\* The exception of a call leaves the method: none of them has a handler.
FlowRaises ==
    /\ flow # NoFlow
    /\ flow.result = NoResult
    /\ pc = "idle"
    /\ Propagating
    /\ FlowEnds(LastCall.result)

\* The test has the method's result.
FlowReturned ==
    /\ flow # NoFlow
    /\ flow.result # NoResult
    /\ flow' = NoFlow
    /\ UNCHANGED <<pageVars, browserVars, alertFound, cfgVars, facVars>>

\* def login(self, username, password)
login ==
    \E u \in Usernames, p \in Passwords :
        BeginFlow("login", u, p, "none", "none")

\* self.enter_text(self.USERNAME_INPUT, username)
enter_username ==
    FlowCall("login", 1, "enter_text", USERNAME_INPUT, NoTimeout, flow.username)

\* self.enter_text(self.PASSWORD_INPUT, password)
enter_password ==
    FlowCall("login", 2, "enter_text", PASSWORD_INPUT, NoTimeout, flow.password)

\* self.click(self.LOGIN_BUTTON)
click_login ==
    FlowCall("login", 3, "click", LOGIN_BUTTON, NoTimeout, <<>>)

LoginSteps == 3

login_returns ==
    /\ Running("login")
    /\ Len(flow.calls) = LoginSteps
    /\ ~Propagating
    /\ FlowEnds(Returned(PyNone))

\* def get_error_message(self)
get_error_message ==
    BeginFlow("get_error_message", <<>>, <<>>, "none", "none")

\* return self.is_element_visible(self.ERROR_MESSAGE, timeout=3)
is_error_displayed ==
    FlowCall("get_error_message", 1, "is_element_visible", ERROR_MESSAGE,
             ErrorTimeout, <<>>)

\* if self.is_error_displayed(): error_text = self.get_text(self.ERROR_MESSAGE)
get_error_text ==
    /\ Running("get_error_message")
    /\ Len(flow.calls) = 1
    /\ LastCall.result = Returned(PyBool(TRUE))
    /\ FlowCall("get_error_message", 2, "get_text", ERROR_MESSAGE, NoTimeout, <<>>)

\* return error_text / return ""
get_error_message_returns ==
    /\ Running("get_error_message")
    /\ \/ /\ Len(flow.calls) = 1
          /\ LastCall.result = Returned(PyBool(FALSE))
          /\ FlowEnds(Returned(PyStr("")))
       \/ /\ Len(flow.calls) = 2
          /\ ~Propagating
          /\ FlowEnds(Returned(LastCall.result.value))

\* def drag_and_drop(self, source, target, timeout=None)
drag_and_drop ==
    \E s \in DOMAIN dom, t \in DOMAIN dom :
        /\ s # t
        /\ BeginFlow("drag_and_drop", <<>>, <<>>, s, t)

\* source_element = self.wait_for_element(source, timeout)
drag_wait_source ==
    FlowCall("drag_and_drop", 1, "wait_for_element", flow.source, NoTimeout, <<>>)

\* target_element = self.wait_for_element(target, timeout)
drag_wait_target ==
    FlowCall("drag_and_drop", 2, "wait_for_element", flow.target, NoTimeout, <<>>)

\* What the browser answers to the chain of pointer actions on two elements.
DragOutcome(src, tgt) ==
    IF session = "dead" THEN "WebDriverException"
    ELSE IF ~Fresh(src) \/ ~Fresh(tgt) THEN "StaleElementReferenceException"
    ELSE IF ~dom[src.loc].visible \/ ~dom[tgt.loc].visible
         THEN "MoveTargetOutOfBoundsException"
    ELSE "ok"

\* actions.drag_and_drop(source_element, target_element).perform()
drag_perform ==
    /\ Running("drag_and_drop")
    /\ Len(flow.calls) = 2
    /\ ~Propagating
    /\ LET src == flow.calls[1].result.value.h
           tgt == flow.calls[2].result.value.h
           o == DragOutcome(src, tgt)
       IN  /\ flow' = [flow EXCEPT
                          !.calls = Append(@, [op |-> "perform", source_element |-> src,
                                               target_element |-> tgt,
                                               result |-> IF o = "ok"
                                                          THEN Returned(PyNone)
                                                          ELSE Raised(Exc(o))]),
                          !.result = IF o = "ok" THEN Returned(PyNone)
                                     ELSE Raised(Exc(o))]
           /\ UNCHANGED <<pageVars, browserVars, alertFound, cfgVars, facVars>>

(***************************************************************************)
(* Frames, windows and alerts                                              *)
(***************************************************************************)
WindowHandles == {"main", "popup"}

AlertTexts == {"Are you sure?"}

NoAlert == "none"

TopFrame == "top"

AlertOps == {"accept_alert", "dismiss_alert", "get_alert_text"}

\* The page opens an alert.
AlertOpens ==
    \E x \in AlertTexts :
        /\ pc # "done"
        /\ session = "alive"
        /\ alert = NoAlert
        /\ alert' = x
        /\ UNCHANGED <<pageVars, windows, context, alertFound, outsideVars>>

\* The alert is closed from outside the test (a user, the page's own timer).
AlertCloses ==
    /\ pc # "done"
    /\ alert # NoAlert
    /\ alert' = NoAlert
    /\ UNCHANGED <<pageVars, windows, context, alertFound, outsideVars>>

\* The page opens a window.
WindowOpens ==
    \E w \in WindowHandles \ windows :
        /\ pc # "done"
        /\ session = "alive"
        /\ windows' = windows \cup {w}
        /\ UNCHANGED <<pageVars, alert, context, alertFound, outsideVars>>

\* A window other than the current one closes.
WindowCloses ==
    \E w \in windows \ {context.window} :
        /\ pc # "done"
        /\ windows' = windows \ {w}
        /\ UNCHANGED <<pageVars, alert, context, alertFound, outsideVars>>

\* switch_to_frame(locator, timeout): wait_for_element, then this step,
\* self.driver.switch_to.frame(frame).
SwitchFrameOutcome(h) ==
    IF session = "dead" THEN "WebDriverException"
    ELSE IF ~Fresh(h) THEN "StaleElementReferenceException"
    ELSE "ok"

SwitchFrame ==
    /\ pc = "switch_frame"
    /\ LET o == SwitchFrameOutcome(handle) IN
        /\ issued' = Append(issued, Interaction("switch_to.frame", o))
        /\ context' = IF o = "ok" THEN [context EXCEPT !.frame = handle.loc]
                      ELSE context
        /\ IF o = "ok"
           THEN Finish(Returned(PyNone))
           ELSE Finish(Raised(Exc(o)))
    /\ UNCHANGED <<dom, session, implicitWait, pageTimeout, call, elapsed, endTime,
                   findStart, handle, field0, log, condSince, condEver, alert,
                   windows, alertFound, outsideVars>>

SwitchWindowOutcome(w) ==
    IF session = "dead" THEN "WebDriverException"
    ELSE IF w \notin windows THEN "NoSuchWindowException"
    ELSE "ok"

\* switch_to_window(window_handle): self.driver.switch_to.window(window_handle),
\* the whole method.
switch_to_window ==
    \E w \in WindowHandles :
        /\ pc = "idle"
        /\ call' = [op |-> "switch_to_window", window_handle |-> w]
        /\ LET o == SwitchWindowOutcome(w) IN
            /\ issued' = <<Interaction("switch_to.window", o)>>
            /\ context' = IF o = "ok" THEN [window |-> w, frame |-> TopFrame]
                          ELSE context
            /\ IF o = "ok"
               THEN Finish(Returned(PyNone))
               ELSE Finish(Raised(Exc(o)))
        /\ elapsed' = 0
        /\ endTime' = 0
        /\ findStart' = 0
        /\ handle' = NoHandle
        /\ field0' = <<>>
        /\ log' = <<>>
        /\ condSince' = 0
        /\ condEver' = FALSE
        /\ alertFound' = FALSE
        /\ UNCHANGED <<dom, session, implicitWait, pageTimeout, alert, windows,
                       outsideVars>>

switch_to_frame ==
    \E l \in Locators, t \in ActionTimeouts :
        BeginCall("switch_to_frame", l, t, <<>>, FALSE, "none")

\* accept_alert / dismiss_alert / get_alert_text up to the first evaluation of
\* WebDriverWait(self.driver, timeout).until(EC.alert_is_present()).
BeginAlertCall(op, t) ==
    /\ pc = "idle"
    /\ call' = Args(op, "none", t, <<>>, FALSE, "none")
    /\ pc' = "alert_poll"
    /\ elapsed' = 0
    /\ findStart' = 0
    /\ endTime' = EffectiveTimeout(t, pageTimeout) * TicksPerSecond
    /\ handle' = NoHandle
    /\ field0' = <<>>
    /\ issued' = <<>>
    /\ log' = <<>>
    /\ result' = NoResult
    /\ condSince' = 0
    /\ condEver' = FALSE
    /\ alertFound' = FALSE
    /\ UNCHANGED <<dom, session, implicitWait, pageTimeout, browserVars,
                   outsideVars>>

accept_alert == \E t \in Timeouts : BeginAlertCall("accept_alert", t)

dismiss_alert == \E t \in Timeouts : BeginAlertCall("dismiss_alert", t)

get_alert_text == \E t \in Timeouts : BeginAlertCall("get_alert_text", t)

\* alert_is_present(): driver.switch_to.alert, NoAlertPresentException -> False
AlertEvaluate ==
    /\ pc = "alert_poll"
    /\ IF session = "dead"
       THEN /\ Finish(Raised(Exc("WebDriverException")))
            /\ UNCHANGED alertFound
       ELSE IF alert # NoAlert
       THEN /\ pc' = "alert_switch"
            /\ alertFound' = TRUE
            /\ UNCHANGED result
       ELSE /\ pc' = "alert_sleep"
            /\ UNCHANGED <<result, alertFound>>
    /\ UNCHANGED <<dom, session, implicitWait, pageTimeout, call, elapsed, endTime,
                   findStart, handle, field0, issued, log, condSince, condEver,
                   browserVars, outsideVars>>

AlertWarning ==
    CASE call.op = "accept_alert" -> "No alert present to accept"
      [] call.op = "dismiss_alert" -> "No alert present to dismiss"
      [] call.op = "get_alert_text" -> "No alert present"

\* A handler that logs the missing alert and raises the timeout again.
AlertTimedOutRaises ==
    /\ log' = Append(log, LogLine("WARNING", AlertWarning))
    /\ Finish(Raised(Exc("TimeoutException")))

\* except TimeoutException: logger.warning(...), and the method returns None.
AlertTimedOut ==
    /\ log' = Append(log, LogLine("WARNING", AlertWarning))
    /\ Finish(Returned(PyNone))

\* time.sleep(self._poll); if time.monotonic() > end_time: break
AlertSleep ==
    /\ pc = "alert_sleep"
    /\ elapsed' = elapsed + PollTicks
    /\ IF elapsed' > endTime
       THEN AlertTimedOut
       ELSE /\ pc' = "alert_poll"
            /\ UNCHANGED <<log, result>>
    /\ UNCHANGED <<dom, session, implicitWait, pageTimeout, call, endTime,
                   findStart, handle, field0, issued, condSince, condEver,
                   browserVars, alertFound, outsideVars>>

AlertCommandOutcome ==
    IF session = "dead" THEN "WebDriverException"
    ELSE IF alert = NoAlert THEN "NoAlertPresentException"
    ELSE "ok"

\* alert = self.driver.switch_to.alert: the property reads the alert's text to
\* make sure that there is one.
AlertSwitch ==
    /\ pc = "alert_switch"
    /\ LET o == AlertCommandOutcome IN
        /\ issued' = Append(issued, Interaction("switch_to.alert", o))
        /\ IF o = "ok"
           THEN /\ pc' = "alert_act"
                /\ UNCHANGED result
           ELSE Finish(Raised(Exc(o)))
    /\ UNCHANGED <<dom, session, implicitWait, pageTimeout, call, elapsed, endTime,
                   findStart, handle, field0, log, condSince, condEver,
                   browserVars, alertFound, outsideVars>>

AlertCommand ==
    CASE call.op = "accept_alert" -> "alert.accept"
      [] call.op = "dismiss_alert" -> "alert.dismiss"
      [] call.op = "get_alert_text" -> "alert.text"

\* alert.accept() / alert.dismiss() / return alert.text
AlertAct ==
    /\ pc = "alert_act"
    /\ LET o == AlertCommandOutcome IN
        /\ issued' = Append(issued, Interaction(AlertCommand, o))
        /\ alert' = IF o = "ok" /\ call.op # "get_alert_text" THEN NoAlert
                    ELSE alert
        /\ IF o # "ok" THEN Finish(Raised(Exc(o)))
           ELSE IF call.op = "get_alert_text" THEN Finish(Returned(PyStr(alert)))
           ELSE Finish(Returned(PyNone))
    /\ UNCHANGED <<dom, session, implicitWait, pageTimeout, call, elapsed, endTime,
                   findStart, handle, field0, log, condSince, condEver, windows,
                   context, alertFound, outsideVars>>

(***************************************************************************)
(* ConfigManager                                                           *)
(***************************************************************************)
PyInt(n) == [t |-> "int", n |-> n]

PyDict(d) == [t |-> "dict", d |-> d]

EmptyDict == <<>>

\* d[k] = v on a dict
Put(d, k, v) == [x \in DOMAIN d \cup {k} |-> IF x = k THEN v ELSE d[x]]

\* The segments of the dotted keys the calls are made with: key.split('.')
ConfigKeys ==
    {<<"browser">>, <<"browser", "type">>, <<"browser", "type", "x">>,
     <<"x">>, <<"x", "type">>}

\* str.upper() on the segments
UpperCase ==
    [browser |-> "BROWSER", type |-> "TYPE", x |-> "X", timeout |-> "TIMEOUT",
     headless |-> "HEADLESS"]

RECURSIVE EnvKey(_)
\* key.upper().replace('.', '_')
EnvKey(key) ==
    IF Len(key) = 1 THEN UpperCase[key[1]]
    ELSE UpperCase[Head(key)] \o "_" \o EnvKey(Tail(key))

EnvNames == {"BROWSER_TYPE"}

\* os.getenv(name)
Getenv(name) == IF name \in DOMAIN environ THEN PyStr(environ[name]) ELSE PyNone

Environs == {[n \in S |-> "edge"] : S \in SUBSET EnvNames}

DotenvFiles ==
    {[exists |-> FALSE], [exists |-> TRUE, vars |-> [BROWSER_TYPE |-> "safari"]]}

\* load_dotenv(env_file): the file's variables that the environment lacks
LoadDotenv(env, file) ==
    IF ~file.exists THEN env
    ELSE [n \in DOMAIN env \cup DOMAIN file.vars |->
            IF n \in DOMAIN env THEN env[n] ELSE file.vars[n]]

\* What yaml.safe_load answers for the files the model is run with.
ConfigFiles ==
    {[exists |-> FALSE],
     [exists |-> TRUE, parses |-> FALSE],
     [exists |-> TRUE, parses |-> TRUE, content |-> PyNone],
     [exists |-> TRUE, parses |-> TRUE,
      content |-> PyDict([browser |-> PyDict([type |-> PyStr("firefox")])])],
     [exists |-> TRUE, parses |-> TRUE,
      content |-> PyDict([x |-> PyDict([type |-> PyStr("custom")])])],
     [exists |-> TRUE, parses |-> TRUE,
      content |-> PyDict([browser |-> PyStr("firefox")])]}

\* self._config = yaml.safe_load(f) or {}; a missing or unreadable file
\* leaves self._config as it is.
LoadConfigFile(cfg, file) ==
    IF ~file.exists THEN cfg
    ELSE IF ~file.parses THEN cfg
    ELSE IF file.content = PyNone THEN PyDict(EmptyDict)
    ELSE file.content

\* The dict `defaults` of _set_defaults, section by section in its order.
DefaultSections ==
    <<"browser", "app", "selenium", "reporting", "execution", "logging">>

Defaults ==
    [browser |-> PyDict([type |-> PyStr("chrome"), headless |-> PyBool(FALSE),
                         timeout |-> PyInt(10), page_load_timeout |-> PyInt(30)]),
     app |-> PyDict([url |-> PyStr("https://www.saucedemo.com"),
                     env |-> PyStr("dev")]),
     selenium |-> PyDict([implicit_wait |-> PyInt(10), explicit_wait |-> PyInt(10),
                          page_load_timeout |-> PyInt(30)]),
     reporting |-> PyDict([screenshots_on_failure |-> PyBool(TRUE),
                           video_recording |-> PyBool(FALSE),
                           allure_results_dir |-> PyStr("allure-results")]),
     execution |-> PyDict([parallel |-> PyBool(FALSE), workers |-> PyInt(4),
                           retry_failed |-> PyBool(TRUE),
                           max_retries |-> PyInt(2)]),
     logging |-> PyDict([level |-> PyStr("INFO"),
                         file |-> PyStr("logs/test_execution.log"),
                         console |-> PyBool(TRUE)])]

Ok(v) == [ok |-> TRUE, value |-> v]

TypeError(v) == [ok |-> FALSE, value |-> v]

\* One turn of `for section, values in defaults.items()` on the dict d. A
\* section that is not a dict fails the membership test or the item
\* assignment with a TypeError.
MergeSection(d, section) ==
    IF section \notin DOMAIN d THEN Ok(Put(d, section, Defaults[section]))
    ELSE IF d[section].t # "dict" THEN TypeError(d)
    ELSE LET mine == d[section].d
             theirs == Defaults[section].d
             merged == [k \in DOMAIN mine \cup DOMAIN theirs |->
                            IF k \in DOMAIN mine THEN mine[k] ELSE theirs[k]]
         IN  Ok(Put(d, section, PyDict(merged)))

RECURSIVE MergeFrom(_, _)
MergeFrom(d, i) ==
    IF i > Len(DefaultSections) THEN Ok(d)
    ELSE LET r == MergeSection(d, DefaultSections[i])
         IN  IF r.ok THEN MergeFrom(r.value, i + 1) ELSE r

\* _set_defaults on self._config
SetDefaults(cfg) ==
    LET r == MergeFrom(cfg.d, 1) IN [ok |-> r.ok, value |-> PyDict(r.value)]

RECURSIVE Navigate(_, _)
\* for k in keys: value = value[k]   (KeyError and TypeError both end it)
Navigate(value, keys) ==
    IF keys = <<>> THEN Ok(value)
    ELSE IF value.t = "dict" /\ Head(keys) \in DOMAIN value.d
    THEN Navigate(value.d[Head(keys)], Tail(keys))
    ELSE [ok |-> FALSE, value |-> PyNone]

\* get(key, default), written with the runtime value ahead of the environment.
GetValueRuntimeFirst(key, default) ==
    LET found == Navigate(config, key)
    IN  IF found.ok THEN found.value
        ELSE IF Getenv(EnvKey(key)) # PyNone THEN Getenv(EnvKey(key))
        ELSE default

\* get(key, default)
GetValue(key, default) ==
    LET env_value == Getenv(EnvKey(key))
        found == Navigate(config, key)
    IN  IF env_value # PyNone THEN env_value
        ELSE IF found.ok THEN found.value
        ELSE default

RECURSIVE SetIn(_, _, _)
\* The loop of set over keys[:-1] and the final item assignment, on the
\* value cfg: a level that exists and is not a dict ends it with a TypeError.
SetIn(cfg, keys, value) ==
    IF cfg.t # "dict" THEN TypeError(cfg)
    ELSE IF Len(keys) = 1 THEN Ok(PyDict(Put(cfg.d, keys[1], value)))
    ELSE LET k == Head(keys)
             child == IF k \in DOMAIN cfg.d THEN cfg.d[k] ELSE PyDict(EmptyDict)
             r == SetIn(child, Tail(keys), value)
         IN  IF r.ok THEN Ok(PyDict(Put(cfg.d, k, r.value))) ELSE TypeError(cfg)

GetDefaults == {PyNone, PyStr("fallback")}

SetValues == {PyStr("firefox"), PyStr("opera")}

NoLastSet == [key |-> <<>>]

NoCfgCall == [op |-> "none", result |-> NoResult]

\* The module-level `config = ConfigManager()` raised: the import of
\* config_manager fails, and nothing of it can be called.
ImportFailed == cfgCall.op = "ConfigManager" /\ cfgCall.result.kind = "raise"

\* __init__ past its guard: _initialized = True, then _load_env_variables,
\* _load_config_file and _set_defaults; a TypeError of _set_defaults leaves
\* the constructor.
LoadAll ==
    LET env == LoadDotenv(environ, dotenv)
        r == SetDefaults(LoadConfigFile(config, configFile))
    IN  /\ instance' = "ConfigManager"
        /\ initialized' = TRUE
        /\ environ' = env
        /\ config' = r.value
        /\ cfgCall' = [op |-> "ConfigManager",
                       result |-> IF r.ok THEN Returned(PyStr("ConfigManager"))
                                  ELSE Raised(Exc("TypeError"))]
        /\ UNCHANGED <<dotenv, configFile, sets, written, lastSet>>

\* A constructor that loads whatever _initialized says.
ConstructReloads == LoadAll

\* ConfigManager(): __new__ hands out the one instance, __init__ returns at
\* once when it is initialized.
Construct ==
    IF instance # "None" /\ initialized
    THEN /\ cfgCall' = [op |-> "ConfigManager",
                        result |-> Returned(PyStr("ConfigManager"))]
         /\ UNCHANGED <<environ, dotenv, configFile, instance, initialized,
                        config, sets, written, lastSet>>
    ELSE LoadAll

ConfigManager ==
    /\ ~ImportFailed
    /\ Construct
    /\ UNCHANGED <<pageVars, browserVars, alertFound, facVars, flowVars>>

\* The module-level `config = ConfigManager()` has been executed.
Imported == instance # "None" /\ ~ImportFailed

get ==
    \E key \in ConfigKeys, default \in GetDefaults :
        /\ Imported
        /\ cfgCall' = [op |-> "get", key |-> key, default |-> default,
                       result |-> Returned(GetValue(key, default))]
        /\ UNCHANGED <<environ, dotenv, configFile, instance, initialized,
                       config, sets, written, lastSet>>
        /\ UNCHANGED <<pageVars, browserVars, alertFound, facVars, flowVars>>

set ==
    \E key \in ConfigKeys, value \in SetValues :
        /\ Imported
        /\ sets < MaxSets
        /\ sets' = sets + 1
        /\ LET r == SetIn(config, key, value) IN
            /\ config' = IF r.ok THEN r.value ELSE config
            /\ written' = IF r.ok THEN written \cup {key} ELSE written
            /\ lastSet' = IF r.ok THEN [key |-> key, value |-> value]
                          ELSE lastSet
            /\ cfgCall' = [op |-> "set", key |-> key, value |-> value,
                           result |-> IF r.ok THEN Returned(PyNone)
                                      ELSE Raised(Exc("TypeError"))]
        /\ UNCHANGED <<environ, dotenv, configFile, instance, initialized>>
        /\ UNCHANGED <<pageVars, browserVars, alertFound, facVars, flowVars>>

\* The convenience properties: each is a get with its own key and default.
Properties ==
    [browser_type |-> [key |-> <<"browser", "type">>, default |-> PyStr("chrome")],
     headless |-> [key |-> <<"browser", "headless">>, default |-> PyBool(FALSE)],
     timeout |-> [key |-> <<"browser", "timeout">>, default |-> PyInt(10)]]

\* config.browser_type, config.headless, config.timeout
property ==
    \E name \in DOMAIN Properties :
        /\ Imported
        /\ cfgCall' = [op |-> name,
                       result |-> Returned(GetValue(Properties[name].key,
                                                    Properties[name].default))]
        /\ UNCHANGED <<environ, dotenv, configFile, instance, initialized,
                       config, sets, written, lastSet>>
        /\ UNCHANGED <<pageVars, browserVars, alertFound, facVars, flowVars>>

Sections == {"browser", "x"}

\* The object a call hands out is the dict the configuration holds at `path`
\* (the same object, not a copy); a path of length 0 names a new dict whose
\* items are the objects the configuration holds.
Shared(path) == [shared |-> TRUE, path |-> path]

NotShared == [shared |-> FALSE]

\* return self._config.get(section, {})
get_section ==
    \E section \in Sections :
        /\ Imported
        /\ cfgCall' = IF section \in DOMAIN config.d
                      THEN [op |-> "get_section", section |-> section,
                            result |-> Returned(config.d[section]),
                            object |-> Shared(<<section>>)]
                      ELSE [op |-> "get_section", section |-> section,
                            result |-> Returned(PyDict(EmptyDict)),
                            object |-> NotShared]
        /\ UNCHANGED <<environ, dotenv, configFile, instance, initialized,
                       config, sets, written, lastSet>>
        /\ UNCHANGED <<pageVars, browserVars, alertFound, facVars, flowVars>>

\* return self._config.copy(): dict.copy() copies the top level only.
get_all ==
    /\ Imported
    /\ cfgCall' = [op |-> "get_all", result |-> Returned(config),
                   object |-> Shared(<<>>)]
    /\ UNCHANGED <<environ, dotenv, configFile, instance, initialized,
                   config, sets, written, lastSet>>
    /\ UNCHANGED <<pageVars, browserVars, alertFound, facVars, flowVars>>

\* The paths a caller assigns through in the structure it was handed.
CallerPaths == {<<"type">>, <<"browser", "type">>}

\* Where an item assignment at `path` of the object lands in the
\* configuration: nowhere when the assigned dict is not one of its dicts.
LandsAt(object, path) ==
    IF ~object.shared THEN <<>>
    ELSE IF object.path = <<>>
         THEN (IF Len(path) > 1 THEN path ELSE <<>>)
    ELSE object.path \o path

RECURSIVE AssignIn(_, _, _)
\* obj[k1]...[kn] = value in the caller's code: every level but the last has
\* to be a dict that is there already.
AssignIn(obj, path, value) ==
    IF obj.t # "dict" THEN TypeError(obj)
    ELSE IF Len(path) = 1 THEN Ok(PyDict(Put(obj.d, path[1], value)))
    ELSE IF Head(path) \notin DOMAIN obj.d THEN TypeError(obj)
    ELSE LET r == AssignIn(obj.d[Head(path)], Tail(path), value)
         IN  IF r.ok THEN Ok(PyDict(Put(obj.d, Head(path), r.value)))
             ELSE TypeError(obj)

\* The caller of get_section or get_all assigns into what it was handed:
\* returned[k] = v, returned[s][k] = v.
CallerAssigns ==
    \E path \in CallerPaths, value \in SetValues :
        /\ Imported
        /\ cfgCall.op \in {"get_section", "get_all"}
        /\ sets < MaxSets
        /\ sets' = sets + 1
        /\ LET theirs == AssignIn(cfgCall.result.value, path, value)
               target == LandsAt(cfgCall.object, path)
               mine == IF target = <<>> THEN Ok(config)
                       ELSE AssignIn(config, target, value)
           IN  /\ theirs.ok
               /\ cfgCall' = [cfgCall EXCEPT !.result = Returned(theirs.value)]
               /\ config' = mine.value
        /\ UNCHANGED <<environ, dotenv, configFile, instance, initialized,
                       written, lastSet>>
        /\ UNCHANGED <<pageVars, browserVars, alertFound, facVars, flowVars>>

\* def __init__(self, driver, timeout: int = 10)
BasePageTimeout == 10

\* LoginPage(driver): super().__init__(driver), the timeout left to its default.
LoginPage ==
    /\ Imported
    /\ pc = "idle"
    /\ pageTimeout' = BasePageTimeout
    /\ UNCHANGED <<dom, session, implicitWait, pc, call, elapsed, endTime,
                   findStart, handle, field0, issued, log, result, condSince,
                   condEver>>
    /\ UNCHANGED <<browserVars, alertFound, outsideVars>>

(***************************************************************************)
(* DriverFactory and the driver fixture                                    *)
(***************************************************************************)
\* The browser names a factory is made with, as the caller spells them.
BrowserNames == {"chrome", "Firefox", "edge", "safari"}

\* str.lower() on the browser names
LowerCase ==
    [chrome |-> "chrome", Firefox |-> "firefox", edge |-> "edge",
     safari |-> "safari"]

\* The keys of driver_map
SupportedBrowsers == {"chrome", "firefox", "edge"}

NoUrl == "None"

RemoteUrls == {NoUrl, "http://grid:4444/wd/hub"}

NoDriver == 0

NoFactory == [browser |-> "none"]

\* DriverFactory(browser, headless, remote_url)
DriverFactory(browser, headless, remote_url) ==
    [browser |-> LowerCase[browser], headless |-> headless,
     remote_url |-> remote_url, driver |-> NoDriver]

\* The timeouts of a session nobody has configured (the WebDriver defaults),
\* in seconds.
SessionDefaults ==
    [implicit_wait |-> 0, page_load_timeout |-> 300, script_timeout |-> 30]

\* implicitly_wait(10), set_page_load_timeout(30), set_script_timeout(30)
StandardSettings ==
    [implicit_wait |-> ImplicitWaitSeconds, page_load_timeout |-> 30,
     script_timeout |-> 30]

\* A session as the browser (or the grid) starts it.
NewSession(family, remote) ==
    [family |-> family, remote |-> remote, state |-> "open",
     settings |-> SessionDefaults, maximized |-> FALSE, quits |-> 0,
     test |-> test.n]

\* _configure_driver on session d
ConfigureDriver(ss, d, headless) ==
    IF d = NoDriver THEN ss
    ELSE [ss EXCEPT ![d].settings = StandardSettings,
                    ![d].maximized = ~headless]

\* _create_remote_driver: ChromeOptions for chrome, FirefoxOptions otherwise
RemoteFamily(browser) == IF browser = "chrome" THEN "chrome" ELSE "firefox"

CreateRecord(f, ss, r, d) ==
    [factory |-> f, sessions |-> ss,
     call |-> [op |-> "create_driver", result |-> r, created |-> d]]

\* create_driver on factory f with the sessions ss; `launches` says whether
\* the browser (or the grid) starts the session.
CreateDriver(f, ss, launches) ==
    LET d == Len(ss) + 1
    IN  IF f.remote_url # NoUrl
        THEN IF launches
             THEN CreateRecord(f, Append(ss, NewSession(RemoteFamily(f.browser),
                                                        TRUE)),
                               Returned(PyInt(d)), d)
             ELSE CreateRecord(f, ss, Raised(Exc("WebDriverException")), NoDriver)
        ELSE IF f.browser \notin SupportedBrowsers
        THEN CreateRecord(f, ss, Raised(Exc("ValueError")), NoDriver)
        ELSE IF ~launches
        THEN CreateRecord(f, ss, Raised(Exc("WebDriverException")), NoDriver)
        ELSE CreateRecord([f EXCEPT !.driver = d],
                          ConfigureDriver(Append(ss, NewSession(f.browser, FALSE)),
                                          d, f.headless),
                          Returned(PyInt(d)), d)

QuitRecord(f, ss, invoked) ==
    [factory |-> f, sessions |-> ss,
     call |-> [op |-> "quit_driver", result |-> Returned(PyNone),
               invoked |-> invoked]]

\* quit_driver that forgets the session only when its quit went well.
QuitDriverNoFinally(f, ss, quits) ==
    IF f.driver = NoDriver THEN QuitRecord(f, ss, FALSE)
    ELSE QuitRecord(IF quits THEN [f EXCEPT !.driver = NoDriver] ELSE f,
                    [ss EXCEPT ![f.driver].quits = @ + 1,
                               ![f.driver].state = IF quits THEN "closed" ELSE @],
                    TRUE)

\* quit_driver on factory f; `quits` says whether driver.quit() goes well.
QuitDriver(f, ss, quits) ==
    IF f.driver = NoDriver THEN QuitRecord(f, ss, FALSE)
    ELSE QuitRecord([f EXCEPT !.driver = NoDriver],
                    [ss EXCEPT ![f.driver].quits = @ + 1,
                               ![f.driver].state = IF quits THEN "closed" ELSE @],
                    TRUE)

NoFacCall == [op |-> "none", result |-> NoResult]

\* --browser is not on the command line.
NotGiven == "<not given>"

NoShot == [name |-> "none"]

\* A test of the run: how it gets its session, where it is, the session the
\* fixture stored for it, the phase and outcome of its report, and what the
\* report hook did.
NewTest(n, pos) ==
    [n |-> n, harness |-> "none", pos |-> pos, driver |-> NoDriver,
     when |-> "setup", outcome |-> "none", configured |-> "none",
     given |-> NotGiven, hook |-> "none", shot |-> NoShot]

NoTest == NewTest(0, "ended")

\* The test makes its factory and calls create_driver on it; a create_driver
\* that raises ends the test before its body and its teardown.
StartTest(harness, browser, headless, remote_url, configured, given) ==
    \E launches \in BOOLEAN :
        LET f == DriverFactory(browser, headless, remote_url)
            c == CreateDriver(f, sessions, launches)
            raised == c.call.result.kind = "raise"
        IN  /\ test.pos = "idle"
            /\ factory' = c.factory
            /\ sessions' = c.sessions
            /\ facCall' = c.call
            /\ test' = [test EXCEPT !.harness = harness,
                                    !.pos = IF raised THEN "ended" ELSE "body",
                                    !.driver = c.call.created,
                                    !.outcome = IF raised THEN "error" ELSE "none",
                                    !.configured = configured,
                                    !.given = given]
            /\ UNCHANGED artifacts
            /\ UNCHANGED <<pageVars, browserVars, alertFound, cfgVars, flowVars>>

\* parser.addoption("--browser", action="store", default="chrome", ...)
BrowserOptionDefault == "chrome"

\* What the command line says about --browser.
CommandLines == {NotGiven} \cup BrowserNames

\* request.config.getoption("--browser", browser): --browser is a registered
\* option, so its value is returned, and that is the registered default when
\* the command line does not give it; the second argument is returned for an
\* option that was never registered.
GetOption(given, fallback) ==
    IF given = NotGiven THEN BrowserOptionDefault ELSE given

\* The driver fixture up to its yield: browser = config.browser_type,
\* headless = config.headless, then the value of --browser; no remote_url.
driver_fixture ==
    \E configured \in BrowserNames, headless \in BOOLEAN, given \in CommandLines :
        StartTest("fixture", GetOption(given, configured), headless, NoUrl,
                  configured, given)

\* with DriverFactory(browser, headless, remote_url) as driver:  (__enter__)
with_enter ==
    \E browser \in BrowserNames, headless \in BOOLEAN, remote_url \in RemoteUrls :
        StartTest("with", browser, headless, remote_url, "none", NotGiven)

\* A run in which a test goes from its body to its teardown with no report.
TestBodyUnreported ==
    \E outcome \in {"passed", "failed"} :
        /\ test.pos = "body"
        /\ test' = [test EXCEPT !.pos = "teardown", !.when = "call",
                                !.outcome = outcome]
        /\ UNCHANGED <<factory, sessions, facCall, artifacts>>
        /\ UNCHANGED <<pageVars, browserVars, alertFound, cfgVars, flowVars>>

\* The body of the test passes or fails; the report of the call phase is
\* made before any fixture is torn down.
TestBody ==
    \E outcome \in {"passed", "failed"} :
        /\ test.pos = "body"
        /\ test' = [test EXCEPT !.pos = "report", !.when = "call",
                                !.outcome = outcome]
        /\ UNCHANGED <<factory, sessions, facCall, artifacts>>
        /\ UNCHANGED <<pageVars, browserVars, alertFound, cfgVars, flowVars>>

\* A fixture set up after the driver fixture raises (login_page: navigate):
\* the body does not run and the failed report is that of the setup phase.
FixtureRaises ==
    /\ test.pos = "body"
    /\ test.harness = "fixture"
    /\ test' = [test EXCEPT !.pos = "report", !.when = "setup",
                            !.outcome = "failed"]
    /\ UNCHANGED <<factory, sessions, facCall, artifacts>>
    /\ UNCHANGED <<pageVars, browserVars, alertFound, cfgVars, flowVars>>

\* item.name
TestName(n) ==
    CASE n = 1 -> "test_successful_login"
      [] n = 2 -> "test_invalid_credentials"
      [] OTHER -> "test_locked_out_user"

\* datetime.now().strftime("%Y%m%d_%H%M%S")
Timestamps == {"20261101_093000"}

\* f"FAIL_{item.name}_{timestamp}.png", f"{prefix}_{name}_{timestamp}.png"
ScreenshotName(prefix, name, timestamp) ==
    IF prefix = "" THEN name \o "_" \o timestamp \o ".png"
    ELSE prefix \o "_" \o name \o "_" \o timestamp \o ".png"

\* driver.save_screenshot(path): True with the file written; False, without
\* raising, when the file cannot be written (Selenium catches the IOError);
\* an exception when the session does not answer.
SaveOutcomes == {"ok", "False", "WebDriverException"}

\* import allure; allure.attach(driver.get_screenshot_as_png(), ...)
AttachOutcomes == {"ok", "ImportError", "WebDriverException"}

\* screenshot_dir.mkdir(exist_ok=True): nothing to do on a directory that is
\* there; otherwise it is made, or the call raises OSError.
Mkdir(a, made) ==
    IF a.dir = "present" THEN [ok |-> TRUE, value |-> a]
    ELSE IF made THEN [ok |-> TRUE, value |-> [a EXCEPT !.dir = "present"]]
    ELSE [ok |-> FALSE, value |-> a]

\* getattr(item, "_driver", None): only the driver fixture stores it.
ItemDriver == IF test.harness = "fixture" THEN test.driver ELSE NoDriver

\* pytest_runtest_makereport after its yield, for the report of the phase
\* the test is in. An exception that leaves the hook ends the run.
pytest_runtest_makereport ==
    \E timestamp \in Timestamps, made \in BOOLEAN, save \in SaveOutcomes,
       attach \in AttachOutcomes :
        LET name == ScreenshotName("FAIL", TestName(test.n), timestamp)
            dir == Mkdir(artifacts, made)
            saved == sessions[ItemDriver].state = "open" /\ save = "ok"
            shot == [name |-> name, session |-> sessions[ItemDriver].state,
                     saved |-> saved,
                     attached |-> saved /\ attach = "ok"]
        IN  /\ test.pos = "report"
            /\ IF test.when = "call" /\ test.outcome = "failed"
                  /\ ItemDriver # NoDriver
               THEN IF dir.ok
                    THEN /\ artifacts' = IF saved
                                         THEN [dir.value EXCEPT !.files = @ \cup {name}]
                                         ELSE dir.value
                         /\ test' = [test EXCEPT !.pos = "teardown",
                                                 !.hook = "returned",
                                                 !.shot = shot]
                    ELSE /\ artifacts' = artifacts
                         /\ test' = [test EXCEPT !.pos = "teardown",
                                                 !.hook = "raised"]
               ELSE /\ artifacts' = artifacts
                    /\ test' = [test EXCEPT !.pos = "teardown",
                                            !.hook = "returned"]
            /\ UNCHANGED <<factory, sessions, facCall>>
            /\ UNCHANGED <<pageVars, browserVars, alertFound, cfgVars, flowVars>>

\* ScreenshotHelper.capture_screenshot(name, prefix) in the body of a test
\* that uses the screenshot_helper fixture, whose constructor made the
\* directory; capture_on_failure(test_name) is the call with prefix "FAIL".
capture_screenshot ==
    \E prefix \in {"", "FAIL"}, timestamp \in Timestamps, save \in SaveOutcomes :
        LET name == ScreenshotName(prefix, TestName(test.n), timestamp)
            saved == sessions[test.driver].state = "open" /\ save = "ok"
        IN  /\ test.pos = "body"
            /\ test.harness = "fixture"
            /\ artifacts' = [dir |-> "present",
                             files |-> IF saved THEN artifacts.files \cup {name}
                                       ELSE artifacts.files]
            /\ facCall' = [op |-> "capture_screenshot", prefix |-> prefix,
                           result |-> IF save = "WebDriverException"
                                         \/ sessions[test.driver].state # "open"
                                      THEN Returned(PyStr(""))
                                      ELSE Returned(PyStr("screenshots/" \o name))]
            /\ UNCHANGED <<factory, sessions, test>>
            /\ UNCHANGED <<pageVars, browserVars, alertFound, cfgVars, flowVars>>

\* A call of quit_driver that moves the test to position `pos`.
CallQuitDriver(pos) ==
    \E quits \in BOOLEAN :
        LET q == QuitDriver(factory, sessions, quits)
        IN  /\ factory' = q.factory
            /\ sessions' = q.sessions
            /\ facCall' = q.call
            /\ test' = [test EXCEPT !.pos = pos]
            /\ UNCHANGED artifacts
            /\ UNCHANGED <<pageVars, browserVars, alertFound, cfgVars, flowVars>>

\* The fixture after its yield, and __exit__: both call quit_driver, whether
\* the body passed or failed.
Teardown ==
    /\ test.pos = "teardown"
    /\ CallQuitDriver("ended")

\* quit_driver called on the factory by the test itself, during the body or
\* after the with block.
quit_driver ==
    /\ test.harness = "with"
    /\ test.pos \in {"body", "ended"}
    /\ test.outcome # "error"
    /\ CallQuitDriver(test.pos)

\* The next test of the run begins.
NextTest ==
    /\ test.pos = "ended"
    /\ test.n < MaxTests
    /\ test.hook # "raised"
    /\ test' = NewTest(test.n + 1, "idle")
    /\ factory' = NoFactory
    /\ facCall' = NoFacCall
    /\ UNCHANGED <<sessions, artifacts>>
    /\ UNCHANGED <<pageVars, browserVars, alertFound, cfgVars, flowVars>>

(***************************************************************************)
(* Specification                                                           *)
(***************************************************************************)
\* DriverFactory.create_driver configures a local session (implicit wait of
\* 10 s) and returns a remote one as webdriver.Remote made it (no implicit wait).
SessionImplicitWaits == {0, ImplicitWaitSeconds * TicksPerSecond}

\* One window, no alert, the top-level document.
InitBrowser ==
    /\ alert = NoAlert
    /\ windows = {"main"}
    /\ context = [window |-> "main", frame |-> TopFrame]
    /\ alertFound = FALSE

\* Before config_manager is imported; the files drawn by the specification
\* that exercises the configuration.
InitConfig(environs, dotenvs, files) ==
    /\ environ \in environs
    /\ dotenv \in dotenvs
    /\ configFile \in files
    /\ instance = "None"
    /\ initialized = FALSE
    /\ config = PyDict(EmptyDict)
    /\ cfgCall = NoCfgCall
    /\ sets = 0
    /\ written = {}
    /\ lastSet = NoLastSet

\* Before the first test of the run.
InitFactory ==
    /\ factory = NoFactory
    /\ sessions = <<>>
    /\ test = NoTest
    /\ facCall = NoFacCall
    /\ artifacts = [dir |-> "absent", files |-> {}]

NoFiles == {[exists |-> FALSE]}

InitOutside ==
    /\ InitConfig({EmptyDict}, NoFiles, NoFiles)
    /\ InitFactory

\* A page object on a session, ready for a call.
InitPage(pageTimeouts) ==
    /\ InitBrowser
    /\ session = "alive"
    /\ implicitWait \in SessionImplicitWaits
    /\ pageTimeout \in pageTimeouts
    /\ pc = "idle"
    /\ call = NoCall
    /\ elapsed = 0
    /\ endTime = 0
    /\ findStart = 0
    /\ handle = NoHandle
    /\ field0 = <<>>
    /\ issued = <<>>
    /\ log = <<>>
    /\ result = NoResult
    /\ condSince = 0
    /\ condEver = FALSE
    /\ flow = NoFlow

InitCall(pageTimeouts) ==
    /\ InitPage(pageTimeouts)
    /\ InitOutside

Init ==
    /\ dom \in [Locators -> PresentNodes(0) \cup {AbsentNode(0, a) : a \in AttrMaps}]
    /\ InitCall({ShortTimeout})

UntilStep ==
    \/ FindBlocked
    \/ UntilEvaluate
    \/ UntilSleep

\* The element interactions of a test, on a page that changes under it.
Next ==
    \/ click
    \/ enter_text
    \/ get_attribute
    \/ UntilStep
    \/ ClickNative
    \/ ClickScript
    \/ ClearField
    \/ SendKeys
    \/ ReadAttribute
    \/ Return
    \/ NodeRemoved
    \/ NodeInserted
    \/ VisibilityChanged
    \/ EnabledChanged
    \/ OverlayChanged
    \/ SessionDies

Spec == Init /\ [][Next]_vars

\* The wait primitives of a test, on a page that changes under it. The waits
\* read neither the content, the attributes nor the overlay of a node.
PlainNodes ==
    {n \in PresentNodes(0) : n.value = <<>> /\ ~n.obscured
                             /\ \A a \in AttrNames : n.attrs[a] = NoneValue}

InitWait ==
    /\ dom \in [Locators -> PlainNodes
                    \cup {AbsentNode(0, [a \in AttrNames |-> NoneValue])}]
    /\ InitCall(1..MaxTimeout)

NextWait ==
    \/ wait_for_element
    \/ wait_for_elements
    \/ wait_for_element_clickable
    \/ wait_for_element_invisible
    \/ is_element_visible
    \/ UntilStep
    \/ Return
    \/ NodeRemoved
    \/ NodeInserted
    \/ VisibilityChanged
    \/ EnabledChanged
    \/ SessionDies

SpecWait == InitWait /\ [][NextWait]_vars

\* Frame, window and alert operations of a test.
InitContext ==
    /\ dom \in [Locators -> PlainNodes
                    \cup {AbsentNode(0, [a \in AttrNames |-> NoneValue])}]
    /\ InitCall({ShortTimeout})

AlertStep ==
    \/ AlertEvaluate
    \/ AlertSleep
    \/ AlertSwitch
    \/ AlertAct

NextContext ==
    \/ switch_to_frame
    \/ switch_to_window
    \/ accept_alert
    \/ dismiss_alert
    \/ get_alert_text
    \/ UntilStep
    \/ SwitchFrame
    \/ AlertStep
    \/ Return
    \/ NodeRemoved
    \/ NodeInserted
    \/ VisibilityChanged
    \/ AlertOpens
    \/ AlertCloses
    \/ WindowOpens
    \/ WindowCloses
    \/ SessionDies

SpecContext == InitContext /\ [][NextContext]_vars

\* A page with its only node, for the specifications that leave it alone.
InitIdlePage ==
    /\ dom = [l \in Locators |-> AbsentNode(0, [a \in AttrNames |-> NoneValue])]
    /\ InitPage({ShortTimeout})
    /\ implicitWait = 0

\* The configuration of a test run: construction, then get and set.
InitConfigManager ==
    /\ InitIdlePage
    /\ InitConfig(Environs, DotenvFiles, ConfigFiles)
    /\ InitFactory

NextConfig ==
    \/ ConfigManager
    \/ get
    \/ set

SpecConfig == InitConfigManager /\ [][NextConfig]_vars

\* The files of a run whose settings are read: none, or one that sets the
\* timeout and the browser.
SettingsFiles ==
    {[exists |-> FALSE],
     [exists |-> TRUE, parses |-> TRUE,
      content |-> PyDict([browser |-> PyDict([type |-> PyStr("firefox"),
                                              timeout |-> PyInt(5)])])]}

\* No page object is made yet.
InitSettings ==
    /\ dom = [l \in Locators |-> AbsentNode(0, [a \in AttrNames |-> NoneValue])]
    /\ InitPage({NoTimeout})
    /\ implicitWait = 0
    /\ InitConfig(Environs, NoFiles, SettingsFiles)
    /\ InitFactory

\* The readers of the configuration, the code that is handed its dicts, and
\* the page objects made while it is in force.
NextSettings ==
    \/ ConfigManager
    \/ get
    \/ set
    \/ property
    \/ get_section
    \/ get_all
    \/ CallerAssigns
    \/ LoginPage

SpecSettings == InitSettings /\ [][NextSettings]_vars

\* The sessions of a test run: each test creates its factory and its session
\* and tears them down.
InitDriverFactory ==
    /\ InitIdlePage
    /\ InitConfig({EmptyDict}, NoFiles, NoFiles)
    /\ InitFactory

NextFactory ==
    \/ NextTest
    \/ driver_fixture
    \/ with_enter
    \/ TestBody
    \/ FixtureRaises
    \/ capture_screenshot
    \/ pytest_runtest_makereport
    \/ Teardown
    \/ quit_driver

SpecFactory == InitDriverFactory /\ [][NextFactory]_vars

\* The login page under a test that calls its methods, and a page that hides
\* and drops its nodes meanwhile. The session has no implicit wait and stays
\* alive: every failure of a call comes from the page.
ShownNodes == {n \in PlainNodes : n.enabled}

InitFlows ==
    /\ dom \in [LoginLocators -> ShownNodes
                    \cup {AbsentNode(0, [a \in AttrNames |-> NoneValue])}]
    /\ InitCall({ShortTimeout})
    /\ implicitWait = 0

NextFlows ==
    \/ login
    \/ enter_username
    \/ enter_password
    \/ click_login
    \/ login_returns
    \/ get_error_message
    \/ is_error_displayed
    \/ get_error_text
    \/ get_error_message_returns
    \/ drag_and_drop
    \/ drag_wait_source
    \/ drag_wait_target
    \/ drag_perform
    \/ FlowReturn
    \/ FlowRaises
    \/ FlowReturned
    \/ get_text
    \/ get_attribute
    \/ scroll_to_element
    \/ highlight_element
    \/ Return
    \/ UntilEvaluate
    \/ UntilSleep
    \/ ClickNative
    \/ ClickScript
    \/ ClearField
    \/ SendKeys
    \/ ReadAttribute
    \/ ReadText
    \/ ScrollIntoView
    \/ ScrollSleep
    \/ HighlightRead
    \/ HighlightSet
    \/ HighlightSleep
    \/ HighlightRestore
    \/ NodeRemoved
    \/ VisibilityChanged

SpecFlows == InitFlows /\ [][NextFlows]_vars

(***************************************************************************)
(* Properties of the element interactions (checked under Spec)             *)
(***************************************************************************)
Done(op) == pc = "done" /\ call.op = op

Failed(i) == issued[i].outcome # "ok"

\* C1: when the native click of click() raises, a script click is issued on
\* the same element handle, and when that script click succeeds the call
\* returns normally.
ClickFallsBackToScript ==
    (Done("click") /\ Len(issued) >= 1 /\ Failed(1)) =>
        /\ Len(issued) = 2
        /\ issued[1].cmd = "click"
        /\ issued[2].cmd = "script_click"
        /\ issued[2].handle = issued[1].handle
        /\ ~Failed(2) => result = Returned(PyNone)

ClickFellBack ==
    /\ Done("click")
    /\ Len(issued) = 2
    /\ issued[1].outcome = "ElementClickInterceptedException"
    /\ issued[2].outcome = "ok"
    /\ result.kind = "return"

\* C2: when the native click and the script click both fail, click() does not
\* return normally: the failure of the script click reaches the caller.
ClickRaisesWhenBothFail ==
    (Done("click") /\ Len(issued) = 2 /\ Failed(1) /\ Failed(2)) =>
        /\ result.kind = "raise"
        /\ result.exc.type = issued[2].outcome

BothClicksFailed ==
    /\ Done("click")
    /\ Len(issued) = 2
    /\ issued[1].cmd = "click" /\ Failed(1)
    /\ issued[2].cmd = "script_click" /\ Failed(2)
    /\ result.kind = "raise"

ActionMethods == {"click", "enter_text"}

HasError(l) == \E i \in 1..Len(l) : l[i].level = "ERROR"

\* C3: click and enter_text issue no interaction before their wait returned
\* an element: none while the wait is running, every interaction goes to the
\* element the wait returned, and a wait that times out ends the call with
\* TimeoutException and nothing issued.
NoInteractionBeforeWait ==
    (call.op \in ActionMethods) =>
        /\ InWait => issued = <<>> /\ handle = NoHandle
        /\ issued # <<>> =>
              /\ handle # NoHandle
              /\ ~HasError(log)
              /\ \A i \in 1..Len(issued) : issued[i].handle = handle
        /\ (pc = "done" /\ handle = NoHandle /\ session = "alive") =>
              /\ result = Raised(Exc("TimeoutException"))
              /\ issued = <<>>

ActionTimedOut ==
    /\ pc = "done"
    /\ call.op \in ActionMethods
    /\ handle = NoHandle
    /\ session = "alive"
    /\ result.kind = "raise"
    /\ result.exc.type = "TimeoutException"
    /\ elapsed > endTime

\* C8: enter_text that returns leaves the field holding exactly the text when
\* clear_first is true, and the previous content followed by the text when it
\* is false; the clear is issued once, before the write, and only when
\* clear_first is true.
EnterTextFieldContent ==
    (Done("enter_text") /\ result.kind = "return") =>
        /\ dom[call.loc].value =
              IF call.clear_first THEN call.text ELSE field0 \o call.text
        /\ [i \in 1..Len(issued) |-> issued[i].cmd] =
              IF call.clear_first THEN <<"clear", "send_keys">> ELSE <<"send_keys">>

EnterTextAppended ==
    /\ Done("enter_text")
    /\ result.kind = "return"
    /\ ~call.clear_first
    /\ field0 # <<>>
    /\ call.text # <<>>
    /\ dom[call.loc].value = field0 \o call.text

ReadFailures == {"WebDriverException", "StaleElementReferenceException"}

\* C9: get_attribute on an element that was found returns the attribute's
\* value, or None when the element has no such attribute; whether the
\* attribute exists never decides whether the call raises.
GetAttributeReturnsValueOrNone ==
    (Done("get_attribute") /\ handle # NoHandle) =>
        /\ (session = "alive" /\ Fresh(handle)) => result.kind = "return"
        /\ result.kind = "return" =>
              result.value =
                  IF dom[call.loc].attrs[call.attribute] \in AttrValues
                  THEN PyStr(dom[call.loc].attrs[call.attribute])
                  ELSE PyNone
        /\ result.kind = "raise" =>
              result.exc.type \in ReadFailures

GetAttributeReturnedNone ==
    /\ Done("get_attribute")
    /\ handle # NoHandle
    /\ dom[call.loc].attrs[call.attribute] = NoneValue
    /\ result = Returned(PyNone)

(***************************************************************************)
(* Properties of the wait primitives (checked under SpecWait)              *)
(***************************************************************************)
RaisingWaits ==
    {"wait_for_element", "wait_for_elements", "wait_for_element_clickable"}

Truthy(v) == v # PyNone /\ v # PyBool(FALSE)

\* C4: a wait primitive whose condition never becomes true ends by raising
\* TimeoutException at about its timeout T: not before T, and no later than
\* one polling interval after T; it never returns an element.
TimeoutRaisedAtAboutT ==
    (pc = "done" /\ call.op \in RaisingWaits /\ session = "alive" /\ ~condEver) =>
        /\ result = Raised(Exc("TimeoutException"))
        /\ elapsed >= endTime
        /\ elapsed <= endTime + PollTicks

\* C5: a wait whose condition becomes true at a time t before its timeout T,
\* and stays true, returns successfully at or before T and no later than one
\* polling interval after t.
WaitReturnsWithinPollOfTrue ==
    (/\ pc = "done"
     /\ call.op \in WaitOps
     /\ session = "alive"
     /\ CondHolds(CondOf(call.op), dom[call.loc])
     /\ condSince < endTime) =>
        /\ result.kind = "return"
        /\ Truthy(result.value)
        /\ elapsed <= endTime
        /\ elapsed <= condSince + PollTicks

\* C6: the timeout failure a wait-based operation raises carries the locator
\* that was waited on and the name of the operation.
TimeoutCarriesLocatorAndOperation ==
    (pc = "done" /\ result.kind = "raise"
                 /\ result.exc.type = "TimeoutException") =>
        /\ call.loc \in result.exc.msg
        /\ call.op \in result.exc.msg

\* C7: is_element_visible and wait_for_element_invisible never raise: they
\* end by returning a boolean, and is_element_visible returns true only when
\* the element is visible.
BooleanWaitsNeverRaise ==
    (pc = "done" /\ call.op \in BooleanWaits) =>
        /\ result.kind = "return"
        /\ (call.op = "is_element_visible" /\ result.value = PyBool(TRUE)) =>
              dom[call.loc].present /\ dom[call.loc].visible

\* C10: a wait is bounded by the per-call timeout whenever one is passed,
\* whatever its value (0 included), and by the page's default timeout only
\* when none is passed.
PerCallTimeoutBoundsTheWait ==
    (InWait /\ call.op \in WaitOps) =>
        endTime = TicksPerSecond *
                    (IF call.timeout # NoTimeout THEN call.timeout ELSE pageTimeout)

(***************************************************************************)
(* Properties of the frame, window and alert operations (under             *)
(* SpecContext)                                                            *)
(***************************************************************************)
\* The wait of the current alert operation ran past its end_time.
AlertWaitRanOut == pc = "done" /\ call.op \in AlertOps /\ elapsed > endTime

\* C11: when no alert appears within the timeout, accept_alert, dismiss_alert
\* and get_alert_text log a warning and return None without having sent any
\* command to an alert; and whatever they send to an alert, they send after
\* the wait for the alert's presence has succeeded.
AbsentAlertIsLoggedNotRaised ==
    /\ AlertWaitRanOut =>
          /\ result = Returned(PyNone)
          /\ issued = <<>>
          /\ \E i \in 1..Len(log) : log[i].level = "WARNING"
    /\ (call.op \in AlertOps /\ issued # <<>>) => alertFound

\* C11 witness: get_alert_text waited its whole timeout for an alert that did
\* not come and returned None.
AlertTextOfNoAlert ==
    /\ AlertWaitRanOut
    /\ call.op = "get_alert_text"
    /\ result = Returned(PyNone)
    /\ Len(log) = 1

ContextCommands ==
    {"switch_to.frame", "switch_to.window", "alert.accept", "alert.dismiss"}

\* A wait of the current call has answered with its target.
WaitHadSucceeded == handle # NoHandle \/ alertFound

\* C12: every switch to a frame or a window and every accept or dismiss of an
\* alert is sent after a wait for its target has succeeded in the same call.
ContextSwitchOnlyAfterWait ==
    \A i \in 1..Len(issued) :
        issued[i].cmd \in ContextCommands => WaitHadSucceeded

(***************************************************************************)
(* Properties of ConfigManager (under SpecConfig)                          *)
(***************************************************************************)
\* The name of the environment variable that stands for each key.
EnvNameOf(key) ==
    CASE key = <<"browser">> -> "BROWSER"
      [] key = <<"browser", "type">> -> "BROWSER_TYPE"
      [] key = <<"browser", "type", "x">> -> "BROWSER_TYPE_X"
      [] key = <<"x">> -> "X"
      [] key = <<"x", "type">> -> "X_TYPE"

EnvSet(key) == EnvNameOf(key) \in DOMAIN environ

\* What the configuration file defines.
FileContent ==
    IF configFile.exists /\ configFile.parses /\ configFile.content # PyNone
    THEN configFile.content
    ELSE PyDict(EmptyDict)

IsPrefix(a, b) == Len(a) <= Len(b) /\ SubSeq(b, 1, Len(a)) = a

\* No set has written the key, a level above it or a level below it.
Untouched(key) == \A w \in written : ~IsPrefix(w, key) /\ ~IsPrefix(key, w)

\* The value the precedence environment > file > built-in default > caller's
\* default gives the key.
ByPrecedence(key, default) ==
    IF EnvSet(key) THEN PyStr(environ[EnvNameOf(key)])
    ELSE IF Navigate(FileContent, key).ok THEN Navigate(FileContent, key).value
    ELSE IF Navigate(PyDict(Defaults), key).ok
    THEN Navigate(PyDict(Defaults), key).value
    ELSE default

RuntimeOverrideWins ==
    (cfgCall.op = "get" /\ lastSet.key = cfgCall.key)
        => cfgCall.result = Returned(lastSet.value)

\* C15: set never raises, and a get of the key that the last set wrote
\* returns the value it wrote when no environment variable shadows the key.
SetCreatesLevelsAndIsReadBack ==
    /\ cfgCall.op = "set" => cfgCall.result = Returned(PyNone)
    /\ (cfgCall.op = "get" /\ lastSet.key = cfgCall.key /\ ~EnvSet(cfgCall.key))
          => cfgCall.result = Returned(lastSet.value)

\* C16: a construction of ConfigManager while the instance exists returns
\* that instance and changes neither the configuration (the values written
\* by set included) nor the environment.
LaterConstructionsChangeNothing ==
    [][(instance # "None" /\ cfgCall'.op = "ConfigManager")
          => /\ instance' = instance
             /\ initialized' = initialized
             /\ config' = config
             /\ environ' = environ
             /\ cfgCall'.result = Returned(PyStr("ConfigManager"))]_vars

\* C16 witness: ConfigManager was constructed again after a set, and the
\* value written by the set is still there.
ConstructedAgainAfterSet ==
    /\ cfgCall.op = "ConfigManager"
    /\ written # {}
    /\ Navigate(config, lastSet.key).ok
    /\ Navigate(config, lastSet.key).value = lastSet.value

(***************************************************************************)
(* Properties of DriverFactory and the driver fixture (under SpecFactory)  *)
(***************************************************************************)
\* C17: create_driver on a factory whose browser is none of chrome, firefox,
\* edge raises ValueError and creates no session, with or without remote_url.
UnsupportedBrowserRejected ==
    (facCall.op = "create_driver" /\ factory.browser \notin SupportedBrowsers)
        => /\ facCall.result = Raised(Exc("ValueError"))
           /\ facCall.created = NoDriver

\* C18: the session that create_driver returns has the implicit wait, the
\* page-load timeout and the script timeout of _configure_driver.
ReturnedSessionsConfigured ==
    (facCall.op = "create_driver" /\ facCall.result.kind = "return")
        => sessions[facCall.created].settings = StandardSettings

\* C19: quit_driver returns None and leaves the factory without a session,
\* and no session has its quit invoked more than once.
QuitDriverSafeAndIdempotent ==
    /\ facCall.op = "quit_driver"
          => facCall.result = Returned(PyNone) /\ factory.driver = NoDriver
    /\ \A d \in 1..Len(sessions) : sessions[d].quits <= 1

\* C19 witness: the session's quit failed in the first quit_driver, and a
\* further quit_driver invoked nothing.
SecondQuitDidNothing ==
    /\ facCall.op = "quit_driver"
    /\ ~facCall.invoked
    /\ \E d \in 1..Len(sessions) :
          /\ sessions[d].test = test.n
          /\ sessions[d].quits = 1
          /\ sessions[d].state = "open"

\* C20: when a test has ended, every session created for it has been closed
\* or at least had its quit invoked, and the session a test works with is
\* one created for that test.
SessionsDestroyedAtTestEnd ==
    /\ test.pos = "ended" =>
          \A d \in 1..Len(sessions) :
              sessions[d].test = test.n
                  => sessions[d].state = "closed" \/ sessions[d].quits > 0
    /\ test.pos = "body" => sessions[test.driver].test = test.n

(***************************************************************************)
(* Properties of the interaction layer as a whole                          *)
(***************************************************************************)
Cmds == [i \in 1..Len(issued) |-> issued[i].cmd]

Count(cmd) == Cardinality({i \in 1..Len(issued) : issued[i].cmd = cmd})

\* C26: the interaction layer retries nothing but the click: one call issues
\* each command at most once, a script click is issued only right after the
\* native click of the same call raised, and an interaction that failed is
\* followed by nothing else: the call ends with that failure.
NoRetryButTheClickFallback ==
    /\ \A i \in 1..Len(issued) : Count(issued[i].cmd) = 1
    /\ \A i \in 1..Len(issued) :
          issued[i].cmd = "script_click" =>
              i = 2 /\ issued[1].cmd = "click" /\ Failed(1)
    /\ \A i \in 1..Len(issued) :
          (Failed(i) /\ ~(call.op = "click" /\ i = 1)) =>
              /\ i = Len(issued)
              /\ pc = "done"
              /\ result = Raised(Exc(issued[i].outcome))

\* C26 witness: the write of enter_text failed after its clear succeeded, and
\* the call ended there with one clear and one write issued.
WriteFailedOnce ==
    /\ Done("enter_text")
    /\ Cmds = <<"clear", "send_keys">>
    /\ ~Failed(1)
    /\ Failed(2)
    /\ result.kind = "raise"

(***************************************************************************)
(* Properties of the composed methods (checked under SpecFlows)            *)
(***************************************************************************)
\* What login(username, password) is to call, in this order.
LoginPlan ==
    <<[op |-> "enter_text", loc |-> USERNAME_INPUT, text |-> flow.username],
      [op |-> "enter_text", loc |-> PASSWORD_INPUT, text |-> flow.password],
      [op |-> "click", loc |-> LOGIN_BUTTON, text |-> <<>>]>>

CallOf(c) == [op |-> c.op, loc |-> c.loc, text |-> c.text]

\* C23: login makes exactly three calls in this order: enter the username,
\* enter the password, click the login button. A call that raises is the last
\* one made: no later step starts, nothing is tried again, and the exception
\* is what login ends with.
LoginStepsInOrder ==
    (flow.op = "login") =>
        /\ Len(flow.calls) <= LoginSteps
        /\ \A k \in 1..Len(flow.calls) : CallOf(flow.calls[k]) = LoginPlan[k]
        /\ \A k \in 1..(Len(flow.calls) - 1) : flow.calls[k].result.kind = "return"
        /\ (pc # "idle") => ~Propagating
        /\ (pc # "idle") => CallOf(call) = LoginPlan[Len(flow.calls) + 1]
        /\ flow.result.kind = "return" =>
              Len(flow.calls) = LoginSteps /\ ~Propagating
        /\ flow.result.kind = "raise" =>
              Propagating /\ flow.result = LastCall.result

\* C23 witness: the password step raised after the username was entered, and
\* login ended with that exception without clicking.
LoginStoppedAtPassword ==
    /\ flow.op = "login"
    /\ Len(flow.calls) = 2
    /\ flow.calls[1].result.kind = "return"
    /\ flow.calls[2].result.kind = "raise"
    /\ flow.result = flow.calls[2].result

\* C24: every element handle that is used was fetched by the wait right
\* before its use: no pause of the call and no other wait lies between the
\* wait that returned the handle and the interaction that uses it.
HandlesFetchedJustBeforeUse ==
    /\ \A i \in 1..Len(issued) :
          issued[i].handle # NoHandle =>
              /\ issued[i].handle = handle
              /\ \A j \in 1..(i - 1) : issued[j] # Pause
    /\ flow # NoFlow =>
          \A k \in 1..Len(flow.calls) :
              flow.calls[k].op = "perform" =>
                  /\ k > 1
                  /\ flow.calls[k - 1].result.kind = "return"
                  /\ {flow.calls[k].source_element, flow.calls[k].target_element}
                        \subseteq {flow.calls[k - 1].result.value.h}

ReadOps == {"get_text", "get_attribute"}

\* C27: get_text and get_attribute wait for presence only: a read that ends
\* with TimeoutException found no node for its locator, so a node that is in
\* the DOM, shown or hidden, is read rather than timed out on.
ReadsWaitForPresenceOnly ==
    (pc = "done" /\ call.op \in ReadOps
        /\ result = Raised(Exc("TimeoutException"))) =>
        ~dom[call.loc].present

\* C30: get_error_message never raises: it ends with the text of the error
\* element or with the empty string, whatever the page does meanwhile.
GetErrorMessageNeverRaises ==
    (flow.op = "get_error_message" /\ flow.result # NoResult) =>
        /\ flow.result.kind = "return"
        /\ flow.result.value \in {PyStr(""), PyStr(PageText(ERROR_MESSAGE))}

(***************************************************************************)
(* Properties of the settings in use (checked under SpecSettings)          *)
(***************************************************************************)
ConfigWrites == {"ConfigManager", "set"}

\* C25: the configuration changes only in a construction or a set: no get,
\* get_section, get_all or property changes it, and an assignment into a
\* structure that get_section or get_all handed out leaves it as it is, so
\* that every later get answers as before.
ConfigChangesOnlyByWrites ==
    [][config' # config => cfgCall'.op \in ConfigWrites]_vars

\* C28: the timeout a page object waits with when a call passes none is the
\* configured one, browser.timeout, whatever value the configuration holds.
PageTimeoutIsConfigured ==
    (pageTimeout # NoTimeout) =>
        PyInt(pageTimeout) = GetValue(Properties.timeout.key,
                                      Properties.timeout.default)

(***************************************************************************)
(* Properties of the driver fixture and of the failure report              *)
(* (checked under SpecFactory)                                             *)
(***************************************************************************)
FailedInCall ==
    test.harness = "fixture" /\ test.when = "call" /\ test.outcome = "failed"

ArtifactFailuresNeverPropagate ==
    /\ test.hook # "raised"
    /\ facCall.op = "capture_screenshot" => facCall.result.kind = "return"

\* C29: the driver fixture makes the session of the browser the configuration
\* names, and of the browser of --browser only when the command line gives
\* that option.
FixtureBrowserFromConfigUnlessGiven ==
    (test.harness = "fixture" /\ factory # NoFactory) =>
        factory.browser =
            LowerCase[IF test.given = NotGiven THEN test.configured
                      ELSE test.given]

====
